---- MODULE Spec2Model ----
(***************************************************************************)
(* The Kong adversarial validator of donkeykong (src/kong/adversarial.py). *)
(*                                                                         *)
(* Python values are tagged records; dictionaries keep their insertion     *)
(* order as a sequence of key/value pairs.  Strings are TLA+ strings, so   *)
(* `in`, lower() and join are computed on the characters.  A number n of   *)
(* the program is held in hundredths (0.85 is 85, 7.5 is 750); a whole     *)
(* number stands for a Python int, any other for a float.  Scores are held *)
(* as exact fractions of ONE, weighted sums as exact fractions of WONE.    *)
(***************************************************************************)
EXTENDS Integers, Sequences, FiniteSets, TLC

VARIABLES
    config,     \* the validator's five configuration values
    hashseed,   \* the interpreter's string hash seed
    pc,         \* "ready": call is about to be made; "done": it has returned
    call,       \* the method called and its arguments
    result,     \* what the last validate call returned or raised
    locals,     \* the local variables of that validate call
    summary,    \* what the last batch_validate call returned or raised
    log,        \* every validate call made on the validator, with its outcome
    _client,    \* the language-model client an Ollama validator holds
    ollama,     \* whether the ollama package is there, and what a chat gives
    chats,      \* the number of chat requests made to the language model
    threads,    \* the validate calls that run concurrently on the validator
    composite,  \* a CompositeValidator's validate call and its local variables
    redis,      \* the keys of the Redis server that the job's processes share
    workers,    \* each worker process: its statistics and where its run is
    monitor,    \* the monitor process
    compose     \* the entities file and the environment of each container

\* the variables of a collection job and of the validators of kong/validator.py
jobvars == <<composite, redis, workers, monitor, compose>>

vars ==
    <<config, hashseed, pc, call, result, locals, summary, log,
      _client, ollama, chats, threads, composite, redis, workers, monitor,
      compose>>

\* no collection job and no composite validator: the adversarial validator
\* is used on its own
Unused == [kind |-> "unused"]

NoJob ==
    /\ composite = Unused
    /\ redis = Unused
    /\ workers = <<>>
    /\ monitor = Unused
    /\ compose = Unused

----------------------------------------------------------------------------
(* Python values *)

None == [t |-> "none"]
Num(n) == [t |-> "num", n |-> n]
Str(s) == [t |-> "str", s |-> s]
Bool(b) == [t |-> "bool", b |-> b]
List(l) == [t |-> "list", l |-> l]
Dict(d) == [t |-> "dict", d |-> d]
KV(k, v) == [k |-> k, v |-> v]

\* bool(v)
Truthy(v) ==
    CASE v.t = "none" -> FALSE
      [] v.t = "num"  -> v.n # 0
      [] v.t = "str"  -> v.s # ""
      [] v.t = "bool" -> v.b
      [] v.t = "list" -> v.l # <<>>
      [] v.t = "dict" -> v.d # <<>>

\* x or y
PyOr(x, y) == IF Truthy(x) THEN x ELSE y

\* d.get(key, default)
Get(d, key, default) ==
    IF \E i \in DOMAIN d.d : d.d[i].k = key
    THEN d.d[CHOOSE i \in DOMAIN d.d : d.d[i].k = key].v
    ELSE default

\* len(v) raises TypeError for None and numbers
LenRaises(v) == v.t \notin {"str", "list", "dict"}
PyLen(v) ==
    CASE v.t = "str"  -> Len(v.s)
      [] v.t = "list" -> Len(v.l)
      [] v.t = "dict" -> Len(v.d)
      [] OTHER -> 0

\* v < number, v > number raise TypeError unless v is a number
CmpRaises(v) == v.t \notin {"num", "bool"}
NumOf(v) ==
    CASE v.t = "num"  -> v.n
      [] v.t = "bool" -> IF v.b THEN 100 ELSE 0
      [] OTHER -> 0
GT(v, k) == NumOf(v) > k
LT(v, k) == NumOf(v) < k

----------------------------------------------------------------------------
(* Strings *)

\* term in text
Contains(text, term) ==
    \E i \in 1..(Len(text) - Len(term) + 1) :
        SubSeq(text, i, i + Len(term) - 1) = term

LowerMap ==
    [c \in {"A", "B", "C", "D", "E", "F", "G", "H", "I", "J", "K", "L", "M",
            "N", "O", "P", "Q", "R", "S", "T", "U", "V", "W", "X", "Y", "Z"} |->
        CASE c = "A" -> "a" [] c = "B" -> "b" [] c = "C" -> "c" [] c = "D" -> "d"
          [] c = "E" -> "e" [] c = "F" -> "f" [] c = "G" -> "g" [] c = "H" -> "h"
          [] c = "I" -> "i" [] c = "J" -> "j" [] c = "K" -> "k" [] c = "L" -> "l"
          [] c = "M" -> "m" [] c = "N" -> "n" [] c = "O" -> "o" [] c = "P" -> "p"
          [] c = "Q" -> "q" [] c = "R" -> "r" [] c = "S" -> "s" [] c = "T" -> "t"
          [] c = "U" -> "u" [] c = "V" -> "v" [] c = "W" -> "w" [] c = "X" -> "x"
          [] c = "Y" -> "y" [] c = "Z" -> "z"]

\* s.lower(), one character at a time
RECURSIVE Lower(_)
Lower(s) ==
    IF Len(s) = 0 THEN ""
    ELSE IF Len(s) = 1
    THEN (IF s \in DOMAIN LowerMap THEN LowerMap[s] ELSE s)
    ELSE LET half == Len(s) \div 2
         IN  Lower(SubSeq(s, 1, half)) \o Lower(SubSeq(s, half + 1, Len(s)))

\* sep.join(parts)
RECURSIVE Join(_, _)
Join(sep, parts) ==
    IF parts = <<>> THEN ""
    ELSE IF Len(parts) = 1 THEN parts[1]
    ELSE parts[1] \o sep \o Join(sep, Tail(parts))

\* str(n) of a number held in hundredths
NumStr(n) ==
    LET a == IF n < 0 THEN -n ELSE n
        whole == a \div 100
        frac == a % 100
        sign == IF n < 0 THEN "-" ELSE ""
    IN  IF frac = 0 THEN sign \o ToString(whole)
        ELSE IF frac % 10 = 0
             THEN sign \o ToString(whole) \o "." \o ToString(frac \div 10)
        ELSE IF frac < 10
             THEN sign \o ToString(whole) \o ".0" \o ToString(frac)
        ELSE sign \o ToString(whole) \o "." \o ToString(frac)

\* f"{x:.0%}" of a number held in hundredths
Percent(n) == ToString(n) \o "%"

\* repr(v), str(v)
RECURSIVE Repr(_)
Repr(v) ==
    CASE v.t = "none" -> "None"
      [] v.t = "num"  -> NumStr(v.n)
      [] v.t = "str"  -> "'" \o v.s \o "'"
      [] v.t = "bool" -> IF v.b THEN "True" ELSE "False"
      [] v.t = "list" ->
            "[" \o Join(", ", [i \in DOMAIN v.l |-> Repr(v.l[i])]) \o "]"
      [] v.t = "dict" ->
            "{" \o Join(", ", [i \in DOMAIN v.d |->
                     "'" \o v.d[i].k \o "': " \o Repr(v.d[i].v)]) \o "}"

PyStr(v) == IF v.t = "str" THEN v.s ELSE Repr(v)

----------------------------------------------------------------------------
(* Scores: 1.0 is ONE; a weighted sum of scores (weights in tenths) is in  *)
(* units of WONE.  Every quotient taken below is exact.                    *)

ONE == 6 * 10000000
WONE == 10 * ONE

\* score *= k/10
Discount(score, tenths) == (score * tenths) \div 10

\* round(x, 3) of x = n/unit, in thousandths (ties to even)
Round3(n, unit) ==
    LET step == unit \div 1000
        q == n \div step
        r == n % step
    IN  IF 2 * r > step THEN q + 1
        ELSE IF 2 * r = step THEN (IF q % 2 = 0 THEN q ELSE q + 1)
        ELSE q

Min(a, b) == IF a < b THEN a ELSE b
Max(a, b) == IF a > b THEN a ELSE b

\* the strings of "for x in v" after str(x)
Elems(v) ==
    CASE v.t = "list" -> [i \in DOMAIN v.l |-> PyStr(v.l[i])]
      [] v.t = "str"  -> [i \in 1..Len(v.s) |-> SubSeq(v.s, i, i)]
      [] v.t = "dict" -> [i \in DOMAIN v.d |-> v.d[i].k]
      [] OTHER -> <<>>
IterRaises(v) == v.t \notin {"list", "str", "dict"}

----------------------------------------------------------------------------
(* _check_completeness *)

ReservedKeys == {"data_quality_score", "sources_failed", "sources_successful",
                 "collection_timestamp", "ticker", "entity_id"}

\* a variant that does not look at the success flag of a mapping
IsAvailableDespiteFailure(key, value) ==
    /\ Truthy(value)
    /\ key \notin ReservedKeys
    /\ value.t = "dict" =>
          \E i \in DOMAIN value.d :
              value.d[i].k # "success" /\ Truthy(value.d[i].v)

\* whether a top-level key of raw_data is added to available_sources
IsAvailable(key, value) ==
    /\ Truthy(value)
    /\ key \notin ReservedKeys
    /\ value.t = "dict" =>
          /\ Truthy(Get(value, "success", Bool(TRUE)))
          /\ \E i \in DOMAIN value.d :
                value.d[i].k # "success" /\ Truthy(value.d[i].v)

RECURSIVE Reverse(_)
Reverse(s) == IF s = <<>> THEN <<>> ELSE Append(Reverse(Tail(s)), Head(s))

\* The order in which "for source in available_sources" visits a set built
\* by these insertions: a function of the process's string hash seed.
SetOrder(inserted, seed) == IF seed = 0 THEN inserted ELSE Reverse(inserted)

RECURSIVE AvailableFrom(_, _)
AvailableFrom(raw_data, i) ==
    IF i > Len(raw_data.d) THEN <<>>
    ELSE (IF IsAvailable(raw_data.d[i].k, raw_data.d[i].v)
          THEN <<raw_data.d[i].k>> ELSE <<>>) \o AvailableFrom(raw_data, i + 1)

available_sources(raw_data, seed) == SetOrder(AvailableFrom(raw_data, 1), seed)

semantic_mappings ==
    [earnings |-> <<"earnings", "eps", "revenue", "quarterly", "q1", "q2", "q3",
                    "q4", "profit", "income", "financial">>,
     news     |-> <<"news", "sentiment", "media", "coverage", "article", "press">>,
     analyst  |-> <<"analyst", "rating", "target", "consensus", "upgrade",
                    "downgrade", "buy", "sell", "hold", "overweight",
                    "underweight">>,
     insider  |-> <<"insider", "transaction", "executive", "director", "officer",
                    "purchase", "sale", "filing">>,
     sec      |-> <<"sec", "filing", "10-k", "10-q", "8-k", "proxy", "edgar">>,
     filings  |-> <<"filing", "regulatory", "disclosure", "sec", "annual",
                    "quarterly">>]

\* semantic_mappings.get(name, [name])
related_terms(name) ==
    IF name \in DOMAIN semantic_mappings THEN semantic_mappings[name]
    ELSE <<name>>

RECURSIVE flatten_to_string(_, _)
flatten_to_string(obj, depth) ==
    IF depth > 10 THEN PyStr(obj)
    ELSE IF obj.t = "dict"
    THEN LET part(j) == IF j % 2 = 1 THEN obj.d[(j + 1) \div 2].k
                        ELSE flatten_to_string(obj.d[j \div 2].v, depth + 1)
         IN  Join(" ", [j \in 1..(2 * Len(obj.d)) |-> part(j)])
    ELSE IF obj.t = "list"
    THEN Join(" ", [i \in DOMAIN obj.l |->
                        flatten_to_string(obj.l[i], depth + 1)])
    ELSE IF Truthy(obj) THEN PyStr(obj) ELSE ""

RECURSIVE collect_keys(_, _)
collect_keys(obj, depth) ==
    IF depth > 5 \/ obj.t # "dict" THEN {}
    ELSE UNION {{Lower(obj.d[i].k)} \cup collect_keys(obj.d[i].v, depth + 1) :
                    i \in DOMAIN obj.d}

\* the three strategies of the loop over available_sources
DirectMatch(source, analysis_text) == Contains(analysis_text, Lower(source))

\* a variant for which one related term is enough
SemanticMatchOnce(source, analysis_text) ==
    \E i \in DOMAIN related_terms(Lower(source)) :
        Contains(analysis_text, related_terms(Lower(source))[i])

SemanticMatch(source, analysis_text) ==
    LET terms == related_terms(Lower(source))
    IN  Cardinality({i \in DOMAIN terms : Contains(analysis_text, terms[i])}) >= 2

StructuralMatch(source, analysis) ==
    LET terms == related_terms(Lower(source))
        analysis_keys == collect_keys(analysis, 0)
    IN  \/ Lower(source) \in analysis_keys
        \/ \E i \in DOMAIN terms : \E key \in analysis_keys :
              Contains(key, terms[i])

IsReferenced(source, analysis, analysis_text) ==
    \/ DirectMatch(source, analysis_text)
    \/ SemanticMatch(source, analysis_text)
    \/ StructuralMatch(source, analysis)

critical_sources == {"earnings", "filings", "analyst", "news", "insider", "sec"}

\* a variant that takes the critical names whole: no substring match
IsCriticalByName(source) == Lower(source) \in critical_sources

IsCritical(source) ==
    \/ Lower(source) \in critical_sources
    \/ \E crit \in critical_sources : Contains(Lower(source), crit)

\* a variant without the vacuous case: nothing available scores 0
CompletenessWithoutVacuous(referenced, available) ==
    IF available > 0 THEN (ONE * referenced) \div available ELSE 0

\* len(sources_referenced) / len(available_sources), or 1.0
CompletenessScore(referenced, available) ==
    IF available > 0 THEN (ONE * referenced) \div available ELSE ONE

\* a variant that asks for two related terms, as the semantic match of a
\* source does
FieldAddressedTwice(field, analysis_text) ==
    Cardinality({i \in DOMAIN related_terms(Lower(field)) :
        Contains(analysis_text, related_terms(Lower(field))[i])}) >= 2

\* any(term in analysis_text for term in related) of an expected field
FieldAddressed(field, analysis_text) ==
    \E i \in DOMAIN related_terms(Lower(field)) :
        Contains(analysis_text, related_terms(Lower(field))[i])

RECURSIVE SelectStr(_, _)
SelectStr(s, keep) ==
    IF s = <<>> THEN <<>>
    ELSE (IF Head(s) \in keep THEN <<Head(s)>> ELSE <<>>)
             \o SelectStr(Tail(s), keep)

_check_completeness(analysis, raw_data, expected_fields, seed) ==
    LET available == available_sources(raw_data, seed)
        analysis_text == Lower(flatten_to_string(analysis, 0))
        sources_referenced ==
            {available[i] : i \in {j \in DOMAIN available :
                IsReferenced(available[j], analysis, analysis_text)}}
        missing_critical ==
            {s \in {available[i] : i \in DOMAIN available} :
                IsCritical(s) /\ s \notin sources_referenced}
        critical_issues ==
            [i \in DOMAIN SelectStr(available, missing_critical) |->
                "Critical data source '"
                    \o SelectStr(available, missing_critical)[i]
                    \o "' available but not clearly analyzed"]
        fields == IF Truthy(expected_fields) THEN Elems(expected_fields) ELSE <<>>
        unaddressed ==
            {f \in {fields[i] : i \in DOMAIN fields} :
                ~FieldAddressed(f, analysis_text)}
        field_issues ==
            LET idx == SelectSeq([i \in DOMAIN fields |-> i],
                                 LAMBDA i : fields[i] \in unaddressed)
            IN  [i \in DOMAIN idx |->
                    "Expected field '" \o fields[idx[i]]
                        \o "' not addressed in analysis"]
    IN  [score |-> CompletenessScore(Cardinality(sources_referenced),
                                     Len(available)),
         issues |-> critical_issues \o field_issues,
         available |-> available,
         referenced |-> sources_referenced,
         raised |-> Truthy(expected_fields) /\ IterRaises(expected_fields)]

----------------------------------------------------------------------------
(* _check_consistency *)

\* a variant that lacks the last pair
contradiction_pairs_but_one ==
    << <<"positive", "negative">>, <<"increasing", "decreasing">>,
       <<"strong", "weak">> >>

contradiction_pairs ==
    << <<"positive", "negative">>, <<"increasing", "decreasing">>,
       <<"strong", "weak">>, <<"improving", "declining">> >>

\* analysis.get('score') or analysis.get('quality_score', 0)
ScoreOf(analysis) ==
    PyOr(Get(analysis, "score", None), Get(analysis, "quality_score", Num(0)))

\* analysis.get('findings', []) or analysis.get('key_findings', [])
FindingsOf(analysis) ==
    PyOr(Get(analysis, "findings", List(<<>>)),
         Get(analysis, "key_findings", List(<<>>)))

RECURSIVE ApplyPairs(_, _, _)
\* the loop over contradiction_pairs from pair i on: the score and the issues
ApplyPairs(acc, findings_str, i) ==
    IF i > Len(contradiction_pairs) THEN acc
    ELSE LET pos == contradiction_pairs[i][1]
             neg == contradiction_pairs[i][2]
         IN  IF Contains(findings_str, pos) /\ Contains(findings_str, neg)
             THEN ApplyPairs(
                    [score |-> Discount(acc.score, 9),
                     issues |-> Append(acc.issues,
                        "Potentially contradictory terms in findings: '"
                            \o pos \o "' and '" \o neg \o "'")],
                    findings_str, i + 1)
             ELSE ApplyPairs(acc, findings_str, i + 1)

_check_consistency(analysis, raw_data) ==
    LET confidence == Get(analysis, "confidence", Num(0))
        score == ScoreOf(analysis)
        findings == FindingsOf(analysis)
        data_quality == Get(raw_data, "data_quality_score", Num(10000))
        sources_failed == Get(raw_data, "sources_failed", List(<<>>))
        high_conf == Truthy(confidence) /\ GT(confidence, 80)
        high_score == Truthy(score) /\ GT(score, 700)
        rule1 == high_conf /\ LT(data_quality, 5000)
        rule2 == high_score /\ PyLen(sources_failed) > 2
        rule3 == high_conf /\ PyLen(findings) < 2
        s1 == IF rule1 THEN Discount(ONE, 6) ELSE ONE
        s2 == IF rule2 THEN Discount(s1, 7) ELSE s1
        s3 == IF rule3 THEN Discount(s2, 8) ELSE s2
        i1 == IF rule1
              THEN <<"High confidence (" \o Percent(NumOf(confidence))
                        \o ") despite low data quality ("
                        \o PyStr(data_quality) \o "%)">>
              ELSE <<>>
        i2 == IF rule2
              THEN <<"High score (" \o PyStr(score) \o ") but "
                        \o ToString(PyLen(sources_failed))
                        \o " data sources failed">>
              ELSE <<>>
        i3 == IF rule3
              THEN <<"High confidence (" \o Percent(NumOf(confidence))
                        \o ") but only " \o ToString(PyLen(findings))
                        \o " findings">>
              ELSE <<>>
        findings_str == Lower(Join(" ", Elems(findings)))
        out == ApplyPairs([score |-> s3, issues |-> i1 \o i2 \o i3],
                          findings_str, 1)
    IN  [score |-> out.score,
         issues |-> out.issues,
         raised |->
            \/ Truthy(confidence) /\ CmpRaises(confidence)
            \/ high_conf /\ CmpRaises(data_quality)
            \/ Truthy(score) /\ CmpRaises(score)
            \/ high_score /\ LenRaises(sources_failed)
            \/ high_conf /\ LenRaises(findings)
            \/ IterRaises(findings)]

----------------------------------------------------------------------------
(* _check_logic *)

_check_logic(analysis, raw_data) ==
    LET confidence == Get(analysis, "confidence", Num(0))
        score == ScoreOf(analysis)
        sources_successful == Get(raw_data, "sources_successful", List(<<>>))
        findings == FindingsOf(analysis)
        recommendations == Get(analysis, "recommendations", List(<<>>))
        very_high == Truthy(confidence) /\ GT(confidence, 90)
        extreme == Truthy(score) /\ (GT(score, 900) \/ LT(score, 100))
        rule1 == very_high /\ PyLen(sources_successful) < 4
        rule2 == extreme /\ PyLen(findings) < 3
        rule3 == Truthy(recommendations) /\ ~Truthy(findings)
        s1 == IF rule1 THEN Discount(ONE, 7) ELSE ONE
        s2 == IF rule2 THEN Discount(s1, 6) ELSE s1
        s3 == IF rule3 THEN Discount(s2, 7) ELSE s2
        i1 == IF rule1
              THEN <<"Very high confidence (" \o Percent(NumOf(confidence))
                        \o ") with limited data sources ("
                        \o ToString(PyLen(sources_successful))
                        \o " successful)">>
              ELSE <<>>
        i2 == IF rule2
              THEN <<"Extreme score (" \o PyStr(score)
                        \o ") without sufficient supporting findings">>
              ELSE <<>>
        i3 == IF rule3
              THEN <<"Recommendations provided without supporting findings">>
              ELSE <<>>
    IN  [score |-> s3,
         issues |-> i1 \o i2 \o i3,
         raised |->
            \/ Truthy(confidence) /\ CmpRaises(confidence)
            \/ very_high /\ LenRaises(sources_successful)
            \/ Truthy(score) /\ CmpRaises(score)
            \/ extreme /\ LenRaises(findings)]

----------------------------------------------------------------------------
(* _generate_adversarial_questions *)

\* a variant that asks the fixed questions first
QuestionsFixedFirst(data, fixed, confidence, issue) ==
    fixed \o data \o confidence \o issue

\* the list "questions" after its appends, in their order: the data
\* completeness questions, the temporal and scope questions, the confidence
\* question and the issue-specific question
Questions(data, fixed, confidence, issue) ==
    data \o fixed \o confidence \o issue

_generate_adversarial_questions(analysis, raw_data, existing_issues) ==
    LET sources_failed == Get(raw_data, "sources_failed", List(<<>>))
        data_quality == Get(raw_data, "data_quality_score", Num(10000))
        confidence == Get(analysis, "confidence", Num(0))
        q1 == IF Truthy(sources_failed)
              THEN <<"How confident can we be with "
                        \o ToString(PyLen(sources_failed))
                        \o " data sources unavailable?">>
              ELSE <<>>
        q2 == IF LT(data_quality, 8000)
              THEN <<"Data quality is only " \o PyStr(data_quality)
                        \o "% - what are we potentially missing?">>
              ELSE <<>>
        fixed == <<"Is this analysis based on current data or historical trends?",
                   "How might this conclusion change in 3-6 months?",
                   "What factors outside the available data could affect this conclusion?",
                   "How does this compare to industry peers/benchmarks?">>
        q3 == IF Truthy(confidence) /\ GT(confidence, 80)
              THEN <<"What would cause you to lower your confidence in this analysis?">>
              ELSE IF Truthy(confidence) /\ LT(confidence, 50)
              THEN <<"What additional data would increase confidence?">>
              ELSE <<>>
        q4 == IF \E i \in DOMAIN existing_issues :
                    Contains(Lower(existing_issues[i]), "contradictory")
              THEN <<"Are the contradictions in findings a bug or a feature?">>
              ELSE <<>>
    IN  [questions |-> Questions(q1 \o q2, fixed, q3, q4),
         raised |->
            \/ Truthy(sources_failed) /\ LenRaises(sources_failed)
            \/ CmpRaises(data_quality)
            \/ Truthy(confidence) /\ CmpRaises(confidence)]

----------------------------------------------------------------------------
(* _generate_recommendations *)

\* a variant that approves whenever the scores and the issue count are fine
ApprovingRecommendations(completeness, consistency, logic, issues, questions) ==
    (IF 10 * completeness < 8 * ONE
     THEN <<"ADD_DATA: Collect missing data sources before reanalysis">>
     ELSE <<>>)
 \o (IF 10 * consistency < 7 * ONE
     THEN <<"REVIEW: Manual review needed for inconsistencies">>
     ELSE <<>>)
 \o (IF 10 * logic < 7 * ONE
     THEN <<"RERUN: Conclusions may not follow from evidence">>
     ELSE <<>>)
 \o (IF Len(issues) > 5
     THEN <<"ESCALATE: Too many issues for automated resolution">>
     ELSE <<>>)
 \o (IF Len(questions) > 4
     THEN <<"DEEP_DIVE: Many unanswered questions require investigation">>
     ELSE <<>>)
 \o (IF 10 * completeness >= 8 * ONE /\ 10 * consistency >= 7 * ONE
        /\ 10 * logic >= 7 * ONE /\ Len(issues) <= 5
     THEN <<"APPROVED: Analysis passes adversarial validation">>
     ELSE <<>>)

_generate_recommendations(completeness, consistency, logic, issues, questions) ==
    LET recommendations ==
            (IF 10 * completeness < 8 * ONE
             THEN <<"ADD_DATA: Collect missing data sources before reanalysis">>
             ELSE <<>>)
         \o (IF 10 * consistency < 7 * ONE
             THEN <<"REVIEW: Manual review needed for inconsistencies">>
             ELSE <<>>)
         \o (IF 10 * logic < 7 * ONE
             THEN <<"RERUN: Conclusions may not follow from evidence">>
             ELSE <<>>)
         \o (IF Len(issues) > 5
             THEN <<"ESCALATE: Too many issues for automated resolution">>
             ELSE <<>>)
         \o (IF Len(questions) > 4
             THEN <<"DEEP_DIVE: Many unanswered questions require investigation">>
             ELSE <<>>)
    IN  IF recommendations = <<>>
        THEN <<"APPROVED: Analysis passes adversarial validation">>
        ELSE recommendations

----------------------------------------------------------------------------
(* validate *)

\* completeness*w_c + consistency*w_s + logic*w_l, weights in tenths
WeightedSum(cfg, completeness, consistency, logic) ==
    completeness * cfg.completeness_weight
        + consistency * cfg.consistency_weight
        + logic * cfg.logic_weight

\* a variant without the cap: len(issues) * 0.05
issue_penalty_uncapped(n) == n * (WONE \div 20)

\* min(len(issues) * 0.05, 0.3)
issue_penalty(n) == Min(n * (WONE \div 20), 3 * (WONE \div 10))

\* a variant without the clamp: overall_confidence - issue_penalty
PenalisedUnclamped(overall, n) == overall - issue_penalty(n)

\* max(0, overall_confidence - issue_penalty)
Penalised(overall, n) == Max(0, overall - issue_penalty(n))

\* a variant that reruns at the threshold: overall_confidence <= threshold
should_rerun_at_threshold(cfg, overall, n) ==
    \/ overall <= cfg.confidence_threshold * (WONE \div 100)
    \/ n > cfg.max_issues_before_rerun

\* overall_confidence < threshold or len(issues) > max_issues_before_rerun
should_rerun(cfg, overall, n) ==
    \/ overall < cfg.confidence_threshold * (WONE \div 100)
    \/ n > cfg.max_issues_before_rerun

\* a variant in which the list outlives the call: validate starts from the
\* issues its previous call found
StaleIssues ==
    IF log # <<>> /\ log[Len(log)].result.kind = "result"
    THEN log[Len(log)].result.issues_found
    ELSE <<>>

\* the list "issues" as validate creates it
NewIssues == <<>>

NoResult == [kind |-> "none"]
Raised == [kind |-> "raised", error |-> "TypeError"]

\* the local variables of validate once the questions are generated
ValidateLocals(cfg, comp, cons, logi, issues, ques) ==
    [raised |-> comp.raised \/ cons.raised \/ logi.raised \/ ques.raised,
     available_sources |-> comp.available,
     sources_referenced |-> comp.referenced,
     completeness_score |-> comp.score,
     consistency_score |-> cons.score,
     logic_score |-> logi.score,
     completeness_issues |-> comp.issues,
     consistency_issues |-> cons.issues,
     logic_issues |-> logi.issues,
     issues |-> issues,
     adversarial_questions |-> ques.questions,
     weighted |-> WeightedSum(cfg, comp.score, cons.score, logi.score),
     issue_penalty |-> issue_penalty(Len(issues)),
     overall_confidence |->
        Penalised(WeightedSum(cfg, comp.score, cons.score, logi.score),
                  Len(issues)),
     should_rerun |->
        should_rerun(cfg,
                     Penalised(WeightedSum(cfg, comp.score, cons.score,
                                           logi.score),
                               Len(issues)),
                     Len(issues)),
     recommendations |->
        _generate_recommendations(comp.score, cons.score, logi.score,
                                  issues, ques.questions)]

\* validate from the point where the three checks have extended "issues"
ValidateIssues(cfg, analysis, raw_data, comp, cons, logi, issues) ==
    ValidateLocals(cfg, comp, cons, logi, issues,
                   _generate_adversarial_questions(analysis, raw_data, issues))

\* validate from the point where the three checks have returned
ValidateChecks(cfg, analysis, raw_data, comp, cons, logi) ==
    ValidateIssues(cfg, analysis, raw_data, comp, cons, logi,
                   NewIssues \o comp.issues \o cons.issues \o logi.issues)

\* the local variables of validate when it returns or raises
validate_locals(cfg, seed, analysis, raw_data, expected_fields) ==
    ValidateChecks(cfg, analysis, raw_data,
                   _check_completeness(analysis, raw_data, expected_fields, seed),
                   _check_consistency(analysis, raw_data),
                   _check_logic(analysis, raw_data))

\* what validate hands back: the ValidationResult, or the exception
Outcome(l) ==
    IF l.raised THEN Raised
    ELSE [kind |-> "result",
          overall_confidence |-> Round3(l.overall_confidence, WONE),
          completeness_score |-> Round3(l.completeness_score, ONE),
          consistency_score |-> Round3(l.consistency_score, ONE),
          logic_score |-> Round3(l.logic_score, ONE),
          issues_found |-> l.issues,
          adversarial_questions |-> l.adversarial_questions,
          recommended_actions |-> l.recommendations,
          should_rerun |-> l.should_rerun]

validate(cfg, seed, entity_id, analysis, raw_data, expected_fields) ==
    Outcome(validate_locals(cfg, seed, analysis, raw_data, expected_fields))

----------------------------------------------------------------------------
(* batch_validate *)

\* The confidences of a batch are doubles and their mean is taken in double
\* arithmetic.  A double >= 0 is held as its Precision significant bits m,
\* first bit 1, and the exponent e of its last bit: it is m * 2^e; 0.0 has
\* no bits.
Precision == 53

FZero == [m |-> <<>>, e |-> 0]

Zeros(n) == [i \in 1..n |-> 0]

\* bits without one leading zero
Strip1(bits) == IF bits[1] = 0 THEN Tail(bits) ELSE bits

\* the number a short bit sequence is
RECURSIVE BitsValue(_)
BitsValue(bits) ==
    IF bits = <<>> THEN 0
    ELSE 2 * BitsValue(SubSeq(bits, 1, Len(bits) - 1)) + bits[Len(bits)]

\* the n bits of v < 2^n
IntBits(v, n) == [i \in 1..n |-> (v \div 2 ^ (n - i)) % 2]

\* the bits are handled Chunk at a time, as machine integers
Chunk == 20

\* x + y + c for bit sequences of one length, one bit longer
RECURSIVE AddBits(_, _, _)
AddBits(x, y, c) ==
    IF Len(x) <= Chunk
    THEN IntBits(BitsValue(x) + BitsValue(y) + c, Len(x) + 1)
    ELSE AddBits(SubSeq(x, 1, Len(x) - Chunk), SubSeq(y, 1, Len(y) - Chunk),
                 (BitsValue(SubSeq(x, Len(x) - Chunk + 1, Len(x)))
                    + BitsValue(SubSeq(y, Len(y) - Chunk + 1, Len(y))) + c)
                        \div 2 ^ Chunk)
            \o IntBits((BitsValue(SubSeq(x, Len(x) - Chunk + 1, Len(x)))
                          + BitsValue(SubSeq(y, Len(y) - Chunk + 1, Len(y))) + c)
                            % 2 ^ Chunk, Chunk)

\* bits + 1, one bit longer when every bit was 1
Increment(bits) == Strip1(AddBits(bits, Zeros(Len(bits)), 1))

\* bits without its leading zeros
RECURSIVE Strip(_)
Strip(bits) == IF bits # <<>> /\ bits[1] = 0 THEN Strip(Tail(bits)) ELSE bits

\* the double of Precision or Precision + 1 bits
Renorm(bits, e) ==
    IF Len(bits) > Precision
    THEN [m |-> SubSeq(bits, 1, Precision), e |-> e + 1]
    ELSE [m |-> bits, e |-> e]

\* round to nearest, ties to even: keep is followed by rest and, if sticky,
\* by something more that is not zero
RoundBits(keep, rest, sticky, e) ==
    Renorm(IF /\ rest[1] = 1
              /\ \/ sticky
                 \/ keep[Precision] = 1
                 \/ \E i \in 2..Len(rest) : rest[i] = 1
           THEN Increment(keep) ELSE keep, e)

\* the double nearest to bits * 2^e, bits having more than Precision bits
Round53(bits, e, sticky) ==
    RoundBits(SubSeq(bits, 1, Precision),
              SubSeq(bits, Precision + 1, Len(bits)),
              sticky, e + Len(bits) - Precision)

\* the double nearest to bits * 2^e (+ less than 2^e if sticky), bits[1] = 1
Normal(bits, e, sticky) ==
    IF bits = <<>> THEN FZero
    ELSE IF Len(bits) <= Precision
    THEN Round53(bits \o Zeros(Precision + 1 - Len(bits)),
                 e - (Precision + 1 - Len(bits)), sticky)
    ELSE Round53(bits, e, sticky)

\* the next n <= Chunk bits of r / d, for r < d
QuotientBits(r, d, n) == IntBits((r * 2 ^ n) \div d, n)

\* what is left of r after those n bits
QuotientRest(r, d, n) == (r * 2 ^ n) % d

\* the Precision bits of r / d after the point, in three runs of bits
Quotient53(r, d) ==
    QuotientBits(r, d, Chunk)
        \o QuotientBits(QuotientRest(r, d, Chunk), d, Chunk)
        \o QuotientBits(QuotientRest(QuotientRest(r, d, Chunk), d, Chunk), d,
                        Precision - 2 * Chunk)

\* what is left of r after them
Rest53(r, d) ==
    QuotientRest(QuotientRest(QuotientRest(r, d, Chunk), d, Chunk), d,
                 Precision - 2 * Chunk)

\* the least s with k * 2^s >= 1000, for 0 < k
RECURSIVE Shift(_)
Shift(k) == IF k >= 1000 THEN 0 ELSE 1 + Shift(2 * k)

\* the double that round(x, 3) returns for x = k/1000, 0 <= k < 2000:
\* the double nearest to that decimal
FromThousandths(k) ==
    IF k = 0 THEN FZero
    ELSE Normal(<<1>> \o Quotient53(k * 2 ^ Shift(k) - 1000, 1000),
                0 - Shift(k) - Precision,
                Rest53(k * 2 ^ Shift(k) - 1000, 1000) # 0)

\* a + b in double arithmetic
FAdd(a, b) ==
    IF a.m = <<>> THEN b
    ELSE IF b.m = <<>> THEN a
    ELSE IF a.e >= b.e
    THEN Normal(Strip(AddBits(a.m \o Zeros(a.e - b.e),
                              Zeros(a.e - b.e) \o b.m, 0)), b.e, FALSE)
    ELSE Normal(Strip(AddBits(Zeros(b.e - a.e) \o a.m,
                              b.m \o Zeros(b.e - a.e), 0)), a.e, FALSE)

\* the bits of bits / n after a remainder rem < n
RECURSIVE DivBits(_, _, _)
DivBits(bits, n, rem) ==
    IF Len(bits) <= Chunk
    THEN IntBits((rem * 2 ^ Len(bits) + BitsValue(bits)) \div n, Len(bits))
    ELSE IntBits((rem * 2 ^ Chunk + BitsValue(SubSeq(bits, 1, Chunk))) \div n,
                 Chunk)
            \o DivBits(SubSeq(bits, Chunk + 1, Len(bits)), n,
                       (rem * 2 ^ Chunk + BitsValue(SubSeq(bits, 1, Chunk))) % n)

\* the remainder of that division
RECURSIVE DivRest(_, _, _)
DivRest(bits, n, rem) ==
    IF Len(bits) <= Chunk
    THEN (rem * 2 ^ Len(bits) + BitsValue(bits)) % n
    ELSE DivRest(SubSeq(bits, Chunk + 1, Len(bits)), n,
                 (rem * 2 ^ Chunk + BitsValue(SubSeq(bits, 1, Chunk))) % n)

\* a / n in double arithmetic, for an integer 0 < n < 8
FDiv(a, n) ==
    IF a.m = <<>> THEN FZero
    ELSE Normal(Strip(DivBits(a.m \o Zeros(4), n, 0)), a.e - 4,
                DivRest(a.m \o Zeros(4), n, 0) # 0)

\* a < b and a <= b for doubles
FLess(a, b) ==
    IF b.m = <<>> THEN FALSE
    ELSE IF a.m = <<>> THEN TRUE
    ELSE \/ a.e < b.e
         \/ /\ a.e = b.e
            /\ \E i \in 1..Precision :
                  /\ a.m[i] < b.m[i]
                  /\ \A j \in 1..(i - 1) : a.m[j] = b.m[j]

FLeq(a, b) == a = b \/ FLess(a, b)

\* sum(confidences): each confidence added in turn, from 0
RECURSIVE FSum(_, _)
FSum(acc, confidences) ==
    IF confidences = <<>> THEN acc
    ELSE FSum(FAdd(acc, FromThousandths(Head(confidences))), Tail(confidences))

\* sum(confidences) / len(confidences) if confidences else 0
avg_confidence(confidences) ==
    IF confidences # <<>>
    THEN FDiv(FSum(FZero, confidences), Len(confidences))
    ELSE FZero

\* the exact sum of the confidences, in thousandths
RECURSIVE SumSeq(_)
SumSeq(s) == IF s = <<>> THEN 0 ELSE Head(s) + SumSeq(Tail(s))

RECURSIVE MinSeq(_)
MinSeq(s) == IF Len(s) = 1 THEN s[1] ELSE Min(Head(s), MinSeq(Tail(s)))

RECURSIVE MaxSeq(_)
MaxSeq(s) == IF Len(s) = 1 THEN s[1] ELSE Max(Head(s), MaxSeq(Tail(s)))

\* a variant that counts the reruns: sum(1 for _, r in results if r.should_rerun)
PassedIfRerun(results) ==
    Cardinality({i \in DOMAIN results : results[i].should_rerun})

\* sum(1 for _, r in results if not r.should_rerun)
Passed(results) ==
    Cardinality({i \in DOMAIN results : ~results[i].should_rerun})

\* results: one (entity_id, validation) per item, in input order
BatchResults(cfg, seed, analyses) ==
    [i \in DOMAIN analyses |->
        validate(cfg, seed, analyses[i].entity_id, analyses[i].analysis,
                 analyses[i].raw_data, None)]

\* a variant that collects the reruns last item first
RerunIndexesReversed(results) ==
    Reverse(SelectSeq([i \in DOMAIN results |-> i],
                      LAMBDA i : results[i].should_rerun))

\* the positions of the items whose validation asks for a rerun
RerunIndexes(results) ==
    SelectSeq([i \in DOMAIN results |-> i], LAMBDA i : results[i].should_rerun)

\* needs_rerun: the entry built for each of those items
NeedsRerun(analyses, results, rerun) ==
    [j \in DOMAIN rerun |->
        [entity_id |-> analyses[rerun[j]].entity_id,
         confidence |-> results[rerun[j]].overall_confidence,
         issues |-> results[rerun[j]].issues_found,
         recommendations |-> results[rerun[j]].recommended_actions]]

\* confidences = [r.overall_confidence for _, r in results]
Confidences(results) == [i \in DOMAIN results |-> results[i].overall_confidence]

\* the summary dict built from results
BatchSummary(analyses, results) ==
    IF \E i \in DOMAIN results : results[i].kind = "raised" THEN Raised
    ELSE [kind |-> "summary",
          total_validated |-> Len(results),
          passed |-> Passed(results),
          needs_rerun |-> Len(RerunIndexes(results)),
          avg_confidence |-> avg_confidence(Confidences(results)),
          min_confidence |->
             IF results # <<>> THEN MinSeq(Confidences(results)) ELSE 0,
          max_confidence |->
             IF results # <<>> THEN MaxSeq(Confidences(results)) ELSE 0,
          rerun_items |-> NeedsRerun(analyses, results, RerunIndexes(results))]

batch_validate(cfg, seed, analyses) ==
    BatchSummary(analyses, BatchResults(cfg, seed, analyses))

----------------------------------------------------------------------------
(* OllamaAdversarialValidator._generate_adversarial_questions *)

\* self._client before the first use, and once ollama.Client is constructed
NoClient == "None"
AClient == "Client"

\* what client.chat does: it raises, or it returns a response
ChatError == [kind |-> "error"]
ChatResponse(value) == [kind |-> "response", value |-> value]

\* no ollama package, no service
NoOllama == [installed |-> FALSE, reply |-> ChatError]

\* the characters str.strip() removes
Whitespace == {" ", "\t", "\n", "\r", "\f"}

\* s.strip()
StrStrip(s) ==
    LET kept == {i \in 1..Len(s) : SubSeq(s, i, i) \notin Whitespace}
    IN  IF kept = {} THEN ""
        ELSE SubSeq(s, CHOOSE i \in kept : \A j \in kept : i <= j,
                       CHOOSE i \in kept : \A j \in kept : i >= j)

\* s.split('\n')
Split(s) ==
    LET newlines == {i \in 1..Len(s) : SubSeq(s, i, i) = "\n"}
        cut(k) == IF k = 0 THEN 0
                  ELSE IF k > Cardinality(newlines) THEN Len(s) + 1
                  ELSE CHOOSE i \in newlines :
                          Cardinality({j \in newlines : j <= i}) = k
    IN  [k \in 1..(Cardinality(newlines) + 1) |->
            SubSeq(s, cut(k - 1) + 1, cut(k) - 1)]

\* [q.strip() for q in lines if q.strip()]
StrippedLines(lines) ==
    LET kept == SelectSeq(lines, LAMBDA q : StrStrip(q) # "")
    IN  [i \in DOMAIN kept |-> StrStrip(kept[i])]

\* a variant that keeps every line the model wrote
llm_questions_uncut(content) == StrippedLines(Split(StrStrip(content)))

\* the questions of the response: the first three of its stripped lines
llm_questions(content) ==
    SubSeq(StrippedLines(Split(StrStrip(content))), 1,
           Min(3, Len(StrippedLines(Split(StrStrip(content))))))

\* v[key] raises unless v is a mapping with that key
ItemRaises(v, key) ==
    v.t # "dict" \/ ~\E i \in DOMAIN v.d : v.d[i].k = key

\* response['message']['content'].strip() raises: KeyError, TypeError or
\* AttributeError
ContentRaises(response) ==
    \/ ItemRaises(response, "message")
    \/ ItemRaises(Get(response, "message", None), "content")
    \/ Get(Get(response, "message", None), "content", None).t # "str"

\* the "client" property raises ImportError: no client yet and no package
ClientRaises(client, env) == client = NoClient /\ ~env.installed

\* the try block raises, and the except clause takes it
LlmFails(client, env) ==
    \/ ClientRaises(client, env)
    \/ env.reply.kind = "error"
    \/ ContentRaises(env.reply.value)

\* the overriding _generate_adversarial_questions, given what the parent's
\* returned or raised
OllamaQuestions(base, client, env) ==
    [questions |->
        IF LlmFails(client, env) THEN base.questions
        ELSE base.questions
                \o llm_questions(Get(Get(env.reply.value, "message", None),
                                     "content", None).s),
     raised |-> base.raised,
     base_questions |-> base.questions]

\* self._client after a call that got as far as the try block
ClientAfter(client, env) == IF env.installed THEN AClient ELSE client

\* the chat requests of such a call: one if there is a client, and no other
ChatsOf(client, env) == IF ClientRaises(client, env) THEN 0 ELSE 1

\* the local variables of the inherited validate, and what the call did to
\* the client and to the language model
OllamaLocals(cfg, comp, cons, logi, issues, ques, client, env) ==
    ValidateLocals(cfg, comp, cons, logi, issues, ques)
        @@ [base_questions |-> ques.base_questions,
            client |->
                IF comp.raised \/ cons.raised \/ logi.raised \/ ques.raised
                THEN client ELSE ClientAfter(client, env),
            chats |->
                IF comp.raised \/ cons.raised \/ logi.raised \/ ques.raised
                THEN 0 ELSE ChatsOf(client, env)]

OllamaIssues(cfg, analysis, raw_data, comp, cons, logi, issues, client, env) ==
    OllamaLocals(cfg, comp, cons, logi, issues,
                 OllamaQuestions(
                    _generate_adversarial_questions(analysis, raw_data, issues),
                    client, env),
                 client, env)

OllamaChecks(cfg, analysis, raw_data, comp, cons, logi, client, env) ==
    OllamaIssues(cfg, analysis, raw_data, comp, cons, logi,
                 NewIssues \o comp.issues \o cons.issues \o logi.issues,
                 client, env)

\* validate of an OllamaAdversarialValidator
ollama_validate_locals(cfg, seed, analysis, raw_data, expected_fields, client, env) ==
    OllamaChecks(cfg, analysis, raw_data,
                 _check_completeness(analysis, raw_data, expected_fields, seed),
                 _check_consistency(analysis, raw_data),
                 _check_logic(analysis, raw_data),
                 client, env)

----------------------------------------------------------------------------
(* The inputs *)

Absent == [t |-> "absent"]

\* a dict of the pairs whose value is given
MkDict(pairs) == Dict(SelectSeq(pairs, LAMBDA p : p.v.t # "absent"))

StrList(ss) == List([i \in DOMAIN ss |-> Str(ss[i])])

ConfidenceInputs == {None, Num(0), Num(30), Num(50), Num(80), Num(85), Num(95)}

ScoreInputs == {Absent, None, Num(0), Num(50), Num(700), Num(950)}

NoFindings == List(<<>>)
OneFinding == StrList(<<"Good">>)
TwoFindings == StrList(<<"x", "y">>)
ThreeFindings ==
    StrList(<<"Strong revenue growth", "Improving margins",
              "Market share gains">>)
OnePairFindings ==
    StrList(<<"Revenue is strongly increasing",
              "Market share is decreasing significantly">>)
FourPairFindings ==
    StrList(<<"positive but negative", "Strong yet weak",
              "improving then declining, increasing and decreasing">>)

AllPairsFinding ==
    StrList(<<"POSITIVE or negative, Strong or weak, improving or declining, increasing or decreasing">>)

FindingsInputs ==
    {None, NoFindings, OneFinding, TwoFindings, ThreeFindings, FourPairFindings}

RecommendationInputs == {Absent, StrList(<<"Buy">>)}

QualityInputs == {Absent, None, Num(3000), Num(6000)}

ThreeFailed == StrList(<<"earnings", "analyst", "sec">>)

FailedInputs == {Absent, None, ThreeFailed}

FourSuccessful == StrList(<<"earnings", "news", "analyst", "insider">>)

ScoringPairs(score, confidence, findings, recommendations) ==
    <<KV("score", score), KV("confidence", confidence),
      KV("findings", findings), KV("recommendations", recommendations)>>

MkAnalysis(score, confidence, findings, recommendations) ==
    MkDict(ScoringPairs(score, confidence, findings, recommendations))

MetaPairs(quality, successful, failed) ==
    <<KV("data_quality_score", quality),
      KV("sources_successful", successful), KV("sources_failed", failed)>>

MkRawData(quality, successful, failed) ==
    MkDict(MetaPairs(quality, successful, failed))

MkCall(analysis, raw_data, expected_fields) ==
    [op |-> "validate", entity_id |-> "TEST", analysis |-> analysis,
     raw_data |-> raw_data, expected_fields |-> expected_fields]

\* every combination of the recognised keys, no data source
GridCalls ==
    {MkCall(MkAnalysis(s, c, f, r), MkRawData(q, Absent, sf), None) :
        s \in ScoreInputs, c \in ConfidenceInputs, f \in FindingsInputs,
        r \in RecommendationInputs, q \in QualityInputs, sf \in FailedInputs}

\* a smaller grid, with expected fields, for every configuration
CoreGridCalls ==
    {MkCall(MkAnalysis(s, c, f, r), MkRawData(q, ss, sf), e) :
        s \in {Absent, Num(750), Num(950)}, c \in {Absent, Num(85), Num(95)},
        f \in {NoFindings, TwoFindings, FourPairFindings},
        r \in RecommendationInputs, q \in {Absent, Num(3000)},
        ss \in {Absent, FourSuccessful}, sf \in {Absent, ThreeFailed},
        e \in {None, StrList(<<"competition">>)}}

\* the analyses that mention, or do not mention, the data sources
GoodScoring ==
    ScoringPairs(Num(750), Num(85), ThreeFindings, StrList(<<"Buy">>))

MentionInputs ==
    {<<>>,
     <<KV("summary", Str("The company looks good"))>>,
     <<KV("text", Str("Based on earnings data and news sentiment analysis...")),
       KV("earnings_analysis", Str("Strong Q4")),
       KV("news_summary", Str("Positive coverage"))>>,
     <<KV("sources_used", StrList(<<"earnings", "news", "analyst">>))>>,
     <<KV("notes", Str("EPS and Revenue beat"))>>,
     <<KV("media_view", Str("fine"))>>,
     <<KV("sections", Dict(<<KV("Zeta", Dict(<<KV("insider_view", Str("x"))>>)),
                             KV("revenue", Dict(<<KV("quarterly",
                                Dict(<<KV("q1", Str("good"))>>))>>))>>))>>}

TextAnalyses ==
    {MkDict(base \o m) : base \in {<<>>, GoodScoring}, m \in MentionInputs}

good_raw_data ==
    Dict(<<KV("earnings", Dict(<<KV("q1", Num(150)), KV("q2", Num(160)),
                                 KV("q3", Num(170)), KV("q4", Num(180))>>)),
           KV("news", Dict(<<KV("sentiment", Num(70)), KV("count", Num(5000))>>)),
           KV("analyst", Dict(<<KV("rating", Str("buy")),
                                KV("target", Num(15000))>>)),
           KV("data_quality_score", Num(8500)),
           KV("sources_successful", StrList(<<"earnings", "news", "analyst">>)),
           KV("sources_failed", List(<<>>))>>)

poor_raw_data ==
    Dict(<<KV("earnings", None),
           KV("data_quality_score", Num(3000)),
           KV("sources_successful", StrList(<<"news">>)),
           KV("sources_failed", ThreeFailed)>>)

SourceRaws ==
    {Dict(<<>>),
     Dict(<<KV("earnings", Dict(<<KV("q4", Num(250))>>)),
            KV("news", Dict(<<KV("sentiment", Num(80))>>))>>),
     Dict(<<KV("earnings", Dict(<<KV("important", Str("data"))>>)),
            KV("filings", Dict(<<KV("sec", Str("documents"))>>)),
            KV("analyst", Dict(<<KV("ratings", Str("data"))>>))>>),
     Dict(<<KV("Zeta", Str("notes")),
            KV("earnings", Dict(<<KV("success", Bool(FALSE)),
                                  KV("error", Str("403 Forbidden"))>>))>>),
     Dict(<<KV("sec_filings", Dict(<<KV("success", Bool(TRUE)),
                                     KV("pages", Num(1200))>>)),
            KV("insider", Dict(<<KV("success", Bool(TRUE))>>))>>),
     Dict(<<KV("zeta", List(<<Num(100)>>)),
            KV("ticker", Str("ACME")),
            KV("news", Dict(<<KV("count", Num(0))>>)),
            KV("data_quality_score", Num(7800))>>),
     Dict(<<KV("Zeta", Str("notes")),
            KV("SEC_Filings", Dict(<<KV("pages", Num(1200))>>)),
            KV("news", Dict(<<KV("sentiment", Num(80))>>)),
            KV("insider", Dict(<<KV("success", Bool(FALSE)),
                                 KV("error", Str("403 Forbidden"))>>)),
            KV("analyst", Dict(<<KV("success", Bool(TRUE)),
                                 KV("note", Str(""))>>)),
            KV("ticker", Str("ACME"))>>),
     good_raw_data,
     poor_raw_data}

ExpectedInputs ==
    {None,
     StrList(<<"revenue", "competition", "management">>),
     StrList(<<"Earnings", "news">>)}

SourceCalls ==
    {MkCall(a, r, e) : a \in TextAnalyses, r \in SourceRaws, e \in ExpectedInputs}

\* the inputs of tests/test_adversarial.py
good_analysis ==
    MkDict(GoodScoring
            \o <<KV("sources_used", StrList(<<"earnings", "news", "analyst">>))>>)

poor_analysis == MkAnalysis(Num(950), Num(95), OneFinding, NoFindings)

FixtureCalls ==
    {MkCall(good_analysis, good_raw_data, None),
     MkCall(poor_analysis, poor_raw_data, None),
     MkCall(Dict(<<>>), Dict(<<>>), None),
     MkCall(Dict(<<KV("score", None), KV("confidence", None)>>),
            Dict(<<KV("data_quality_score", None)>>), None),
     MkCall(Dict(<<KV("confidence", Num(95)), KV("score", Num(800))>>),
            Dict(<<KV("data_quality_score", Num(3000))>>), None),
     MkCall(Dict(<<KV("score", Num(700))>>),
            Dict(<<KV("sources_failed", StrList(<<"sec_filings", "earnings">>))>>),
            None),
     MkCall(Dict(<<KV("quality_score", Num(650)), KV("confidence", Num(82)),
                   KV("key_findings", ThreeFindings),
                   KV("findings", None), KV("score", Num(0))>>),
            Dict(<<KV("sources_failed", None), KV("sources_successful", None)>>),
            None),
     MkCall(Dict(<<KV("findings", NoFindings), KV("key_findings", None)>>),
            Dict(<<>>), None),
     MkCall(Dict(<<KV("revenue_analysis", Str("Growing 15% YoY")),
                   KV("margin_analysis", Str("Expanding by 200bps")),
                   KV("risk_assessment", Str("Low regulatory risk"))>>),
            Dict(<<>>), StrList(<<"revenue", "margin", "risk">>)),
     MkCall(Dict(<<KV("score", Num(500))>>),
            Dict(<<KV("earnings", Dict(<<KV("data", Str("present"))>>)),
                   KV("news", Dict(<<KV("data", Str("present"))>>))>>),
            List(<<>>)),
     MkCall(MkAnalysis(Num(950), Num(95), NoFindings, StrList(<<"Buy">>)),
            Dict(<<KV("earnings", Dict(<<KV("q4", Num(250))>>)),
                   KV("news", Dict(<<KV("sentiment", Num(80))>>)),
                   KV("insider", Dict(<<KV("trades", Num(1200))>>)),
                   KV("data_quality_score", Num(3000)),
                   KV("sources_successful", StrList(<<"news">>)),
                   KV("sources_failed", ThreeFailed)>>),
            None),
     MkCall(MkAnalysis(Num(950), Num(95), AllPairsFinding, Absent),
            MkRawData(Num(3000), Absent, ThreeFailed), None),
     MkCall(Dict(<<KV("score", Num(980)), KV("findings", OneFinding)>>),
            Dict(<<KV("data_quality_score", Num(8000))>>), None),
     MkCall(Dict(<<KV("recommendations", StrList(<<"Buy now!">>)),
                   KV("findings", NoFindings)>>),
            Dict(<<>>), None),
     MkCall(Dict(<<KV("score", Num(-100)), KV("confidence", Num(-10))>>),
            Dict(<<>>), None),
     MkCall(Dict(<<>>), Dict(<<>>),
            StrList(<<"revenue", "margin", "risk", "competition">>))}

\* the batches: every sequence of at most MaxBatch of these items
MaxBatch == 3

\* the issue counts over which the penalty is tabulated
MaxIssues == 12

BatchItem(entity_id, analysis, raw_data) ==
    [entity_id |-> entity_id, analysis |-> analysis, raw_data |-> raw_data]

BatchItems ==
    {BatchItem("GOOD1", MkAnalysis(Num(700), Num(80), ThreeFindings, Absent),
               MkRawData(Num(9000), Absent, Absent)),
     BatchItem("GOOD2", MkAnalysis(Num(600), Num(75), TwoFindings, Absent),
               MkRawData(Num(8500), Absent, Absent)),
     BatchItem("BAD1", MkAnalysis(Num(990), Num(99), NoFindings, Absent),
               MkRawData(Num(2000), Absent, Absent)),
     BatchItem("BAD2", poor_analysis, poor_raw_data),
     BatchItem("LOWQ", MkAnalysis(Absent, Num(85), Absent, Absent),
               MkRawData(Num(2000), Absent, Absent)),
     BatchItem("NULL", MkAnalysis(None, None, Absent, Absent),
               MkRawData(None, Absent, Absent))}

BatchCalls ==
    {[op |-> "batch", analyses |-> items] :
        items \in UNION {[1..n -> BatchItems] : n \in 0..MaxBatch}}

\* the known-good items: a moderate score, findings without an antonym pair,
\* no data source left unreferenced and none failed
KnownGoodItems ==
    {BatchItem("GOOD", MkAnalysis(Num(700), c, f, Absent),
               MkRawData(q, Absent, Absent)) :
        c \in {Num(75), Num(80), Num(85)}, f \in {TwoFindings, ThreeFindings},
        q \in {Num(8500), Num(9000)}}

\* the batches of three of them, and of three in which one item is not
KnownGoodBatches ==
    {[op |-> "batch", analyses |-> <<a, b, c>>] :
        a \in KnownGoodItems, b \in KnownGoodItems,
        c \in KnownGoodItems \cup BatchItems}

----------------------------------------------------------------------------
(* The validator: its configuration is set by __init__ and read by validate *)

\* The scores are held exactly (see ONE); the configurations are ones under
\* which the doubles of the program give the same comparisons and the same
\* three-decimal roundings as the exact values, for every score the rules
\* can produce.
DefaultConfig ==
    [completeness_weight |-> 4, consistency_weight |-> 3, logic_weight |-> 3,
     confidence_threshold |-> 70, max_issues_before_rerun |-> 3]

Configs ==
    {DefaultConfig,
     [completeness_weight |-> 8, consistency_weight |-> 1, logic_weight |-> 1,
      confidence_threshold |-> 70, max_issues_before_rerun |-> 3],
     [completeness_weight |-> 4, consistency_weight |-> 3, logic_weight |-> 3,
      confidence_threshold |-> 100, max_issues_before_rerun |-> 0],
     [completeness_weight |-> 4, consistency_weight |-> 4, logic_weight |-> 4,
      confidence_threshold |-> 70, max_issues_before_rerun |-> 1]}

HashSeeds == {0, 1}

\* AdversarialValidator(confidence_threshold=0.6)
LowThreshold ==
    [completeness_weight |-> 4, consistency_weight |-> 3, logic_weight |-> 3,
     confidence_threshold |-> 60, max_issues_before_rerun |-> 3]

\* a call whose overall confidence is 0.5996: four of five sources
\* mentioned, high confidence on poor data, one finding, one contradiction
NearThresholdCall ==
    MkCall(Dict(<<KV("summary", Str("alpha beta gamma delta")),
                  KV("confidence", Num(85)),
                  KV("findings", StrList(<<"positive negative">>))>>),
           Dict(<<KV("alpha", Str("x")), KV("beta", Str("x")),
                  KV("gamma", Str("x")), KV("delta", Str("x")),
                  KV("omega", Str("x")),
                  KV("data_quality_score", Num(3000))>>),
           None)

NoLocals == [raised |-> FALSE]
NoSummary == [kind |-> "none"]

Init ==
    /\ \/ config = DefaultConfig /\ hashseed = 0 /\ call \in GridCalls
       \/ /\ config \in Configs /\ hashseed = 0
          /\ call \in CoreGridCalls \cup FixtureCalls \cup BatchCalls
       \/ /\ config \in Configs /\ hashseed \in HashSeeds
          /\ config = DefaultConfig \/ hashseed = 0
          /\ call \in SourceCalls
       \/ config = DefaultConfig /\ hashseed = 0 /\ call \in KnownGoodBatches
       \/ config = LowThreshold /\ hashseed = 0 /\ call = NearThresholdCall
    /\ pc = "ready"
    /\ result = NoResult
    /\ locals = NoLocals
    /\ summary = NoSummary
    /\ log = <<>>
    /\ NoJob
    /\ _client = NoClient
    /\ ollama = NoOllama
    /\ chats = 0
    /\ threads = <<>>

\* validator.validate(entity_id, analysis, raw_data, expected_fields)
Validate ==
    /\ pc = "ready"
    /\ call.op = "validate"
    /\ LET l == validate_locals(config, hashseed, call.analysis, call.raw_data,
                                call.expected_fields)
       IN  /\ locals' = l
           /\ result' = Outcome(l)
           /\ log' = Append(log, [call |-> call, result |-> Outcome(l)])
    /\ pc' = "done"
    /\ UNCHANGED jobvars
    /\ UNCHANGED <<config, hashseed, call, summary>>
    /\ UNCHANGED <<_client, ollama, chats, threads>>

\* validator.batch_validate(analyses)
BatchValidate ==
    /\ pc = "ready"
    /\ call.op = "batch"
    /\ summary' = batch_validate(config, hashseed, call.analyses)
    /\ pc' = "done"
    /\ UNCHANGED jobvars
    /\ UNCHANGED <<config, hashseed, call, result, locals, log>>
    /\ UNCHANGED <<_client, ollama, chats, threads>>

Next == Validate \/ BatchValidate

Spec == Init /\ [][Next]_vars

----------------------------------------------------------------------------
(* Several calls of validate on one validator *)

\* at most MaxCalls calls are made
MaxCalls == 3

\* the calls that follow the first: the first again, or one of these
FollowUps ==
    {MkCall(Dict(<<>>), Dict(<<>>), None),
     MkCall(poor_analysis, poor_raw_data, None)}

\* the first calls: the fixtures, and the analyses that mention sources
FirstCalls ==
    FixtureCalls
        \cup {MkCall(MkDict(m), r, None) : m \in MentionInputs, r \in SourceRaws}

InitCalls ==
    /\ config \in Configs
    /\ hashseed \in HashSeeds
    /\ call \in FirstCalls
    /\ pc = "ready"
    /\ result = NoResult
    /\ locals = NoLocals
    /\ summary = NoSummary
    /\ log = <<>>
    /\ NoJob
    /\ _client = NoClient
    /\ ollama = NoOllama
    /\ chats = 0
    /\ threads = <<>>

\* the caller, having the result or the exception, prepares another call
NextCall ==
    /\ pc = "done"
    /\ Len(log) < MaxCalls
    /\ call' \in {log[1].call} \cup FollowUps
    /\ pc' = "ready"
    /\ UNCHANGED jobvars
    /\ UNCHANGED <<config, hashseed, result, locals, summary, log>>
    /\ UNCHANGED <<_client, ollama, chats, threads>>

NextCalls == Validate \/ NextCall

SpecCalls == InitCalls /\ [][NextCalls]_vars

----------------------------------------------------------------------------
(* Calls of validate on an OllamaAdversarialValidator *)

\* at most MaxOllamaCalls calls are made
MaxOllamaCalls == 2

\* a response of the language model with this content
Answer(content) ==
    ChatResponse(Dict(<<KV("message",
        Dict(<<KV("role", Str("assistant")), KV("content", content)>>))>>))

\* what a chat gives: an exception (no connection, a timeout), a response
\* that lacks the content or is not a mapping, or a response with a text
Replies ==
    {ChatError,
     ChatResponse(Dict(<<>>)),
     ChatResponse(Dict(<<KV("message", None)>>)),
     ChatResponse(Str("Why now?")),
     Answer(None),
     Answer(Str("")),
     Answer(Str("Single question?")),
     Answer(Str("Why now?\nWhat if not?\nWho says?")),
     Answer(Str("  1. Why now?  \n\n2. What if not?\r\n\t3. Who says?\n \n4. And then?\n5. So what?\n"))}

Environments == [installed : BOOLEAN, reply : Replies]

OllamaCall(c) ==
    [op |-> "ollama_validate", entity_id |-> c.entity_id,
     analysis |-> c.analysis, raw_data |-> c.raw_data,
     expected_fields |-> c.expected_fields]

OllamaCalls ==
    {OllamaCall(c) : c \in
        {MkCall(Dict(<<>>), Dict(<<>>), None),
         MkCall(good_analysis, good_raw_data, None),
         MkCall(poor_analysis, poor_raw_data, None),
         MkCall(Dict(<<KV("score", None), KV("confidence", None)>>),
                Dict(<<KV("data_quality_score", None)>>), None),
         MkCall(Dict(<<KV("findings", NoFindings), KV("key_findings", None)>>),
                Dict(<<>>), None),
         MkCall(Dict(<<KV("score", Num(700))>>),
                Dict(<<KV("sources_failed",
                          StrList(<<"sec_filings", "earnings">>))>>),
                StrList(<<"revenue", "competition", "management">>))}}

InitOllama ==
    /\ config = DefaultConfig
    /\ hashseed = 0
    /\ call \in OllamaCalls
    /\ pc = "ready"
    /\ result = NoResult
    /\ locals = NoLocals
    /\ summary = NoSummary
    /\ log = <<>>
    /\ NoJob
    /\ _client = NoClient
    /\ ollama \in Environments
    /\ chats = 0
    /\ threads = <<>>

\* validate(entity_id, analysis, raw_data, expected_fields) of an
\* OllamaAdversarialValidator
OllamaValidate ==
    /\ pc = "ready"
    /\ call.op = "ollama_validate"
    /\ LET l == ollama_validate_locals(config, hashseed, call.analysis,
                                       call.raw_data, call.expected_fields,
                                       _client, ollama)
       IN  /\ locals' = l
           /\ result' = Outcome(l)
           /\ log' = Append(log, [call |-> call, result |-> Outcome(l)])
           /\ _client' = l.client
           /\ chats' = chats + l.chats
    /\ pc' = "done"
    /\ UNCHANGED jobvars
    /\ UNCHANGED <<config, hashseed, call, summary, ollama, threads>>

\* the caller makes the same call again; the package and the service may
\* have changed meanwhile
NextOllamaCall ==
    /\ pc = "done"
    /\ call.op = "ollama_validate"
    /\ Len(log) < MaxOllamaCalls
    /\ ollama' \in Environments
    /\ pc' = "ready"
    /\ UNCHANGED jobvars
    /\ UNCHANGED <<config, hashseed, call, result, locals, summary, log,
                   _client, chats, threads>>

NextOllama == OllamaValidate \/ NextOllamaCall

SpecOllama == InitOllama /\ [][NextOllama]_vars

----------------------------------------------------------------------------
(* Concurrent calls of validate on one validator: each thread runs validate *)
(* one statement at a time, the statements of the threads in any order      *)

\* the number of threads
MaxThreads == 2

\* what a local variable holds before it is assigned
Unassigned == [raised |-> FALSE]

\* a thread that has entered validate with the arguments of call c
NewThread(c) ==
    [pc |-> "completeness", call |-> c, issues |-> NewIssues,
     completeness |-> Unassigned, consistency |-> Unassigned,
     logic |-> Unassigned, questions |-> <<>>, result |-> NoResult]

\* a variant in which the list is an attribute of the validator, the one the
\* first thread made
issues_of_validator(ths, t) == ths[1].issues

\* the list "issues" of thread t: the local variable of its own call
issues_of(ths, t) == ths[t].issues

\* the thread after the statement it is at, given what the method it calls
\* there returns or raises
AfterCompleteness(th, issues, check) ==
    IF check.raised THEN [th EXCEPT !.pc = "done", !.result = Raised]
    ELSE [th EXCEPT !.pc = "consistency", !.completeness = check,
                    !.issues = issues \o check.issues]

AfterConsistency(th, issues, check) ==
    IF check.raised THEN [th EXCEPT !.pc = "done", !.result = Raised]
    ELSE [th EXCEPT !.pc = "logic", !.consistency = check,
                    !.issues = issues \o check.issues]

AfterLogic(th, issues, check) ==
    IF check.raised THEN [th EXCEPT !.pc = "done", !.result = Raised]
    ELSE [th EXCEPT !.pc = "questions", !.logic = check,
                    !.issues = issues \o check.issues]

AfterQuestions(th, ques) ==
    IF ques.raised THEN [th EXCEPT !.pc = "done", !.result = Raised]
    ELSE [th EXCEPT !.pc = "aggregate", !.questions = ques.questions]

\* the confidence, the decision, the recommendations and the return
AfterAggregate(cfg, th, issues) ==
    [th EXCEPT !.pc = "done",
               !.result = Outcome(ValidateLocals(cfg, th.completeness,
                    th.consistency, th.logic, issues,
                    [questions |-> th.questions, raised |-> FALSE]))]

\* thread t after its next statement
AfterStatement(cfg, seed, ths, t) ==
    CASE ths[t].pc = "completeness" ->
            AfterCompleteness(ths[t], issues_of(ths, t),
                _check_completeness(ths[t].call.analysis, ths[t].call.raw_data,
                                    ths[t].call.expected_fields, seed))
      [] ths[t].pc = "consistency" ->
            AfterConsistency(ths[t], issues_of(ths, t),
                _check_consistency(ths[t].call.analysis, ths[t].call.raw_data))
      [] ths[t].pc = "logic" ->
            AfterLogic(ths[t], issues_of(ths, t),
                _check_logic(ths[t].call.analysis, ths[t].call.raw_data))
      [] ths[t].pc = "questions" ->
            AfterQuestions(ths[t],
                _generate_adversarial_questions(ths[t].call.analysis,
                    ths[t].call.raw_data, issues_of(ths, t)))
      [] ths[t].pc = "aggregate" ->
            AfterAggregate(cfg, ths[t], issues_of(ths, t))

\* the calls the threads make
ThreadCalls ==
    {MkCall(poor_analysis, poor_raw_data, None),
     MkCall(MkAnalysis(Num(950), Num(95), AllPairsFinding, Absent),
            MkRawData(Num(3000), Absent, ThreeFailed),
            StrList(<<"revenue", "competition", "management">>)),
     MkCall(Dict(<<KV("score", None), KV("confidence", None)>>),
            Dict(<<KV("data_quality_score", None)>>), None)}

\* the batch the caller validates meanwhile
ThreadBatch ==
    [op |-> "batch",
     analyses |-> <<BatchItem("BAD2", poor_analysis, poor_raw_data),
                    BatchItem("GOOD1",
                        MkAnalysis(Num(700), Num(80), ThreeFindings, Absent),
                        MkRawData(Num(9000), Absent, Absent))>>]

InitThreads ==
    /\ config = DefaultConfig
    /\ hashseed = 0
    /\ call = ThreadBatch
    /\ pc = "ready"
    /\ result = NoResult
    /\ locals = NoLocals
    /\ summary = NoSummary
    /\ log = <<>>
    /\ NoJob
    /\ _client = NoClient
    /\ ollama = NoOllama
    /\ chats = 0
    /\ threads \in [1..MaxThreads -> {NewThread(c) : c \in ThreadCalls}]

\* a thread executes the statement of validate it is at
ThreadStep(t) ==
    /\ threads[t].pc # "done"
    /\ threads' = [threads EXCEPT
                      ![t] = AfterStatement(config, hashseed, threads, t)]
    /\ UNCHANGED jobvars
    /\ UNCHANGED <<config, hashseed, pc, call, result, locals, summary, log,
                   _client, ollama, chats>>

NextThreads == BatchValidate \/ \E t \in DOMAIN threads : ThreadStep(t)

SpecThreads == InitThreads /\ [][NextThreads]_vars

----------------------------------------------------------------------------
(* CompositeValidator of kong/validator.py: its inner validators are stood  *)
(* for by what their validate returns                                       *)

\* the most inner validators of a composite
MaxValidators == 3

\* result.get('issues', []), result.get('quality_score', 0),
\* result.get('should_retry', False) of an inner result
IssuesOf(r) == Get(r, "issues", List(<<>>)).l
QualityOf(r) == NumOf(Get(r, "quality_score", Num(0)))
RetryOf(r) == Get(r, "should_retry", Bool(FALSE))

\* a variant in which the last inner validator decides
ReduceRetryLast(any_retry, r) == RetryOf(r)

\* any_retry or result.get('should_retry', False)
ReduceRetry(any_retry, r) == PyOr(any_retry, RetryOf(r))

\* the loop of validate from inner validator i on
RECURSIVE CompositeLoop(_, _, _, _, _)
CompositeLoop(validators, entity, data, i, acc) ==
    IF i > Len(validators) THEN acc
    ELSE CompositeLoop(validators, entity, data, i + 1,
            [all_issues |-> acc.all_issues \o IssuesOf(validators[i]),
             min_score |-> Min(acc.min_score, QualityOf(validators[i])),
             any_retry |-> ReduceRetry(acc.any_retry, validators[i]),
             calls |-> Append(acc.calls,
                              [validator |-> i, entity |-> entity,
                               data |-> data])])

\* the local variables of validate after its loop
composite_locals(validators, entity, data) ==
    CompositeLoop(validators, entity, data, 1,
                  [all_issues |-> <<>>, min_score |-> 10000,
                   any_retry |-> Bool(FALSE), calls |-> <<>>])

\* the dictionary that validate returns
CompositeResult(acc) ==
    Dict(<<KV("valid", Bool(Len(acc.all_issues) = 0)),
           KV("quality_score", Num(acc.min_score)),
           KV("issues", List(acc.all_issues)),
           KV("should_retry", acc.any_retry)>>)

\* what the validators of kong/validator.py, or one written by the user,
\* return for some entity and data
InnerResults ==
    {\* SchemaValidator: no issue; a required field missing; a collection error
     Dict(<<KV("valid", Bool(TRUE)), KV("quality_score", Num(10000)),
            KV("issues", List(<<>>)), KV("should_retry", Bool(FALSE))>>),
     Dict(<<KV("valid", Bool(FALSE)), KV("quality_score", Num(7500)),
            KV("issues", StrList(<<"Missing required field: title">>)),
            KV("should_retry", Bool(FALSE))>>),
     Dict(<<KV("valid", Bool(FALSE)), KV("quality_score", Num(0)),
            KV("issues", StrList(<<"Collection error: timeout">>)),
            KV("should_retry", Bool(TRUE))>>),
     \* OllamaValidator: its fallback; two answers of the language model
     Dict(<<KV("valid", Bool(TRUE)), KV("quality_score", Num(8000)),
            KV("issues", List(<<>>)), KV("should_retry", Bool(FALSE)),
            KV("reasoning", Str("Fallback validation (LLM unavailable)")),
            KV("model", Str("fallback"))>>),
     Dict(<<KV("valid", Bool(TRUE)), KV("quality_score", Num(6000)),
            KV("issues", StrList(<<"Thin content", "No pricing">>)),
            KV("should_retry", Bool(TRUE)),
            KV("reasoning", Str("")), KV("model", Str("llama3.2"))>>),
     Dict(<<KV("valid", Bool(FALSE)), KV("quality_score", Num(15000)),
            KV("issues", List(<<>>)), KV("should_retry", Bool(FALSE)),
            KV("reasoning", Str("")), KV("model", Str("llama3.2"))>>),
     \* a validator of the user's that returns an empty dictionary
     Dict(<<>>)}

CompositeData ==
    {Dict(<<>>), Dict(<<KV("title", Str("Ada Lovelace"))>>)}

ValidatorLists ==
    UNION {[1..n -> InnerResults] : n \in 0..MaxValidators}

InitComposite ==
    /\ config = DefaultConfig
    /\ hashseed = 0
    /\ call = Unused
    /\ pc = "ready"
    /\ result = NoResult
    /\ locals = NoLocals
    /\ summary = NoSummary
    /\ log = <<>>
    /\ _client = NoClient
    /\ ollama = NoOllama
    /\ chats = 0
    /\ threads = <<>>
    /\ composite \in [pc : {"ready"}, validators : ValidatorLists,
                      entity : {"Ada_Lovelace"}, data : CompositeData,
                      calls : {<<>>}, result : {None}]
    /\ redis = Unused
    /\ workers = <<>>
    /\ monitor = Unused
    /\ compose = Unused

\* CompositeValidator(validators).validate(entity, data)
CompositeValidate ==
    /\ composite.pc = "ready"
    /\ composite' =
         [composite EXCEPT
            !.pc = "done",
            !.calls = composite_locals(composite.validators, composite.entity,
                                       composite.data).calls,
            !.result = CompositeResult(
                composite_locals(composite.validators, composite.entity,
                                 composite.data))]
    /\ UNCHANGED <<config, hashseed, pc, call, result, locals, summary, log,
                   _client, ollama, chats, threads, redis, workers, monitor,
                   compose>>

NextComposite == CompositeValidate

SpecComposite == InitComposite /\ [][NextComposite]_vars

----------------------------------------------------------------------------
(* The compose files of interfaces/python/api.py and interfaces/cli/main.py *)
(* and run_worker of core/worker.py in each container.  An entity is known  *)
(* by its position, from 1, in the entities file.                           *)

\* the most lines of an entities file, and the most worker containers
MaxEntities == 5
MaxContainers == 3

\* the environment of the container worker-i
Environment(i, start, end) ==
    [WORKER_ID |-> i, START_INDEX |-> start, END_INDEX |-> end]

\* Pipeline._generate_compose: per_worker = len(self.entities) // workers
_generate_compose(total, n) ==
    [i \in 1..n |->
        Environment(i, (i - 1) * (total \div n),
                    IF i < n THEN (i - 1) * (total \div n) + (total \div n)
                    ELSE total)]

\* generate_docker_compose: total = the non-blank lines of the file
generate_docker_compose(total, n) ==
    [i \in 1..n |->
        Environment(i, (i - 1) * (total \div n),
                    IF i < n THEN (i - 1) * (total \div n) + (total \div n)
                    ELSE total)]

\* WorkerConfig(): the defaults of the dataclass
WorkerConfig == [worker_id |-> 1, start_index |-> 0, end_index |-> 100]

\* a variant that reads the container's environment, as
\* DonkeyWorker.__init__ does when it is given no config
WorkerConfigFromEnv(env) ==
    [worker_id |-> env.WORKER_ID, start_index |-> env.START_INDEX,
     end_index |-> env.END_INDEX]

\* the config that run_worker builds in a container with this environment
run_worker_config(env) == WorkerConfig

\* all_entities[start:end] for 0 <= start, 0 <= end
Slice(all_entities, start, end) ==
    SubSeq(all_entities, start + 1, Min(end, Len(all_entities)))

InitCompose ==
    /\ config = DefaultConfig
    /\ hashseed = 0
    /\ call = Unused
    /\ pc = "ready"
    /\ result = NoResult
    /\ locals = NoLocals
    /\ summary = NoSummary
    /\ log = <<>>
    /\ _client = NoClient
    /\ ollama = NoOllama
    /\ chats = 0
    /\ threads = <<>>
    /\ composite = Unused
    /\ redis = Unused
    /\ workers = <<>>
    /\ monitor = Unused
    /\ compose \in [pc : {"written"}, total : 0..MaxEntities,
                    generator : {"api", "cli"}, n : 1..MaxContainers,
                    env : {<<>>}]

\* Pipeline._run_docker or "dk collect" writes the compose file
GenerateCompose ==
    /\ compose.pc = "written"
    /\ compose' =
         [compose EXCEPT
            !.pc = "generated",
            !.env = IF compose.generator = "api"
                    THEN _generate_compose(compose.total, compose.n)
                    ELSE generate_docker_compose(compose.total, compose.n)]
    /\ workers' = [i \in 1..compose.n |->
                      [pc |-> "created", config |-> Unused, assigned |-> <<>>]]
    /\ UNCHANGED <<config, hashseed, pc, call, result, locals, summary, log,
                   _client, ollama, chats, threads, composite, redis, monitor>>

\* run_worker(worker_class, entities_file) in the container worker-i; the
\* worker's run is given the list "assigned"
RunWorker(i) ==
    /\ compose.pc = "generated"
    /\ workers[i].pc = "created"
    /\ workers' =
         [workers EXCEPT
            ![i] = [pc |-> "ran",
                    config |-> run_worker_config(compose.env[i]),
                    assigned |->
                        Slice([k \in 1..compose.total |-> k],
                              run_worker_config(compose.env[i]).start_index,
                              run_worker_config(compose.env[i]).end_index)]]
    /\ UNCHANGED <<config, hashseed, pc, call, result, locals, summary, log,
                   _client, ollama, chats, threads, composite, redis, monitor,
                   compose>>

NextCompose == GenerateCompose \/ \E i \in DOMAIN workers : RunWorker(i)

SpecCompose == InitCompose /\ [][NextCompose]_vars

----------------------------------------------------------------------------
(* A collection job: the workers of core/worker.py, the monitor of          *)
(* core/monitor.py and the tools of interfaces/mcp/server.py and            *)
(* interfaces/cli/main.py, which share one Redis server.  Each worker was   *)
(* made with its own WORKER_ID and its own range of the entities.  A Redis  *)
(* or file operation of a worker may raise; the inputs "fault" and "hfault" *)
(* name the first operation of the step, and of its except clause, that     *)
(* does.                                                                    *)

\* the workers of a job, and the entities assigned to each
MaxWorkers == 2
MaxAssigned == 2

\* the longest job:retry list
MaxRetry == 1

\* the most operations of Redis or of the disk that raise during a job
MaxFaults == 1

\* WorkerConfig.checkpoint_interval of the workers, MonitorConfig.report_interval
checkpoint_interval == 2
report_interval == 100

JobWorkers == 1..MaxWorkers
JobEntities == 1..(MaxWorkers * MaxAssigned)

\* the list "entities" that run is given in worker w
Assigned(w) == [k \in 1..MaxAssigned |-> (w - 1) * MaxAssigned + k]

\* self.stats of DonkeyWorker.__init__; entity 0 stands for None
NewStats(w) ==
    [worker_id |-> w, entities_processed |-> 0, entities_successful |-> 0,
     entities_failed |-> 0, current_entity |-> 0, status |-> "initialized"]

\* hgetall of a key that does not exist
NoStats == [status |-> "missing"]

NewRedis ==
    [progress |-> [total_processed |-> 0, total_successful |-> 0,
                   total_failed |-> 0],
     stats |-> [w \in JobWorkers |-> NoStats],
     failures |-> {},
     retry |-> <<>>,
     stop_signal |-> FALSE,
     faults |-> 0]

\* n more operations have raised
Faulted(r, n) == [r EXCEPT !.faults = r.faults + n]

\* n more operations may raise
MayRaise(n) == redis.faults + n <= MaxFaults

\* _update_redis_stats: hset of the worker's stats; an exception of Redis is
\* logged and swallowed
_update_redis_stats(r, stats, raises) ==
    IF raises THEN r ELSE [r EXCEPT !.stats[stats.worker_id] = stats]

\* redis.hincrby('collection:progress', field, 1)
hincrby(r, field) ==
    [r EXCEPT !.progress[field] = r.progress[field] + 1]

\* _record_failure: hset of failures:{entity}
_record_failure(r, entity) == [r EXCEPT !.failures = r.failures \cup {entity}]

\* the except clause of process_entity
ExceptClause(stats, r, entity, hfault) ==
    [stats |-> [stats EXCEPT !.entities_failed = stats.entities_failed + 1],
     redis |-> IF hfault = "hincrby" THEN r
               ELSE IF hfault = "hset" THEN hincrby(r, "total_failed")
               ELSE _record_failure(hincrby(r, "total_failed"), entity),
     raised |-> hfault # "none"]

\* the try block of process_entity on a valid result, up to the operation
\* that raises
TryValid(stats, r, entity, fault, hfault) ==
    IF fault = "save" THEN ExceptClause(stats, r, entity, hfault)
    ELSE IF fault = "hincrby"
    THEN ExceptClause(
            [stats EXCEPT !.entities_successful = stats.entities_successful + 1],
            r, entity, hfault)
    ELSE [stats |-> [stats EXCEPT
                        !.entities_successful = stats.entities_successful + 1],
          redis |-> hincrby(r, "total_successful"),
          raised |-> FALSE]

\* the try block of process_entity on a result that is not valid
TryInvalid(stats, r, entity, fault, hfault) ==
    IF fault = "save" THEN ExceptClause(stats, r, entity, hfault)
    ELSE IF fault = "hincrby"
    THEN ExceptClause(
            [stats EXCEPT !.entities_failed = stats.entities_failed + 1],
            r, entity, hfault)
    ELSE IF fault = "hset"
    THEN ExceptClause(
            [stats EXCEPT !.entities_failed = stats.entities_failed + 1],
            hincrby(r, "total_failed"), entity, hfault)
    ELSE [stats |-> [stats EXCEPT !.entities_failed = stats.entities_failed + 1],
          redis |-> _record_failure(hincrby(r, "total_failed"), entity),
          raised |-> FALSE]

\* process_entity from its try statement on: collect and validate give a
\* valid result, one that is not valid, or raise
process_entity(stats, r, entity, outcome, fault, hfault) ==
    IF outcome = "valid" THEN TryValid(stats, r, entity, fault, hfault)
    ELSE IF outcome = "invalid" THEN TryInvalid(stats, r, entity, fault, hfault)
    ELSE ExceptClause(stats, r, entity, hfault)

Outcomes == {"valid", "invalid", "raises"}
TryFaults == {"none", "save", "hincrby", "hset"}
ExceptFaults == {"none", "hincrby", "hset"}

\* the number of operations that raise in a call of process_entity
FaultsOf(outcome, fault, hfault) ==
    (IF fault # "none" THEN 1 ELSE 0) + (IF hfault # "none" THEN 1 ELSE 0)

\* get_global_stats: the statuses of the workers 1..expected_workers that
\* have a stats key
worker_stats(r) == {w \in JobWorkers : r.stats[w] # NoStats}

\* check_completion
check_completion(r) ==
    /\ \A w \in worker_stats(r) : r.stats[w].status \in {"completed", "failed"}
    /\ worker_stats(r) # {}

InitJob ==
    /\ config = DefaultConfig
    /\ hashseed = 0
    /\ call = Unused
    /\ pc = "ready"
    /\ result = NoResult
    /\ locals = NoLocals
    /\ summary = NoSummary
    /\ log = <<>>
    /\ _client = NoClient
    /\ ollama = NoOllama
    /\ chats = 0
    /\ threads = <<>>
    /\ composite = Unused
    /\ redis = NewRedis
    /\ workers = [w \in JobWorkers |->
                    [pc |-> "created", idx |-> 1, stats |-> NewStats(w)]]
    /\ monitor = [pc |-> "polling", last_report_count |-> 0]
    /\ compose = Unused

JobFrame ==
    UNCHANGED <<config, hashseed, pc, call, result, locals, summary, log,
                _client, ollama, chats, threads, composite, compose>>

\* run, up to its loop: status 'running'
Run(w) ==
    /\ workers[w].pc = "created"
    /\ \E raises \in BOOLEAN :
          /\ raises => MayRaise(1)
          /\ workers' = [workers EXCEPT ![w].pc = "loop",
                                        ![w].stats.status = "running"]
          /\ redis' = _update_redis_stats(
                         Faulted(redis, IF raises THEN 1 ELSE 0),
                         [workers[w].stats EXCEPT !.status = "running"],
                         raises)
    /\ UNCHANGED monitor
    /\ JobFrame

\* the loop of run takes its next entity, and process_entity begins
BeginEntity(w) ==
    /\ workers[w].pc = "loop"
    /\ workers[w].idx <= Len(Assigned(w))
    /\ \E raises \in BOOLEAN :
          /\ raises => MayRaise(1)
          /\ workers' = [workers EXCEPT
                            ![w].pc = "collecting",
                            ![w].stats.current_entity =
                                Assigned(w)[workers[w].idx]]
          /\ redis' = _update_redis_stats(
                         Faulted(redis, IF raises THEN 1 ELSE 0),
                         [workers[w].stats EXCEPT
                             !.current_entity = Assigned(w)[workers[w].idx]],
                         raises)
    /\ UNCHANGED monitor
    /\ JobFrame

\* process_entity collects, validates, saves and counts, and returns or
\* raises
ProcessEntity(w) ==
    /\ workers[w].pc = "collecting"
    /\ \E outcome \in Outcomes, fault \in TryFaults, hfault \in ExceptFaults :
          /\ MayRaise(FaultsOf(outcome, fault, hfault))
          /\ fault = "hset" => outcome = "invalid"
          /\ fault # "none" => outcome # "raises"
          /\ (hfault # "none" /\ outcome # "raises") => fault # "none"
          /\ workers' =
               [workers EXCEPT
                  ![w].stats = process_entity(workers[w].stats, redis,
                                   Assigned(w)[workers[w].idx],
                                   outcome, fault, hfault).stats,
                  ![w].pc = IF process_entity(workers[w].stats, redis,
                                   Assigned(w)[workers[w].idx],
                                   outcome, fault, hfault).raised
                            THEN "crashed" ELSE "processed"]
          /\ redis' = process_entity(
                         workers[w].stats,
                         Faulted(redis, FaultsOf(outcome, fault, hfault)),
                         Assigned(w)[workers[w].idx],
                         outcome, fault, hfault).redis
    /\ UNCHANGED monitor
    /\ JobFrame

\* the rest of the loop body: the entity is counted, and every
\* checkpoint_interval entities a checkpoint is written
CountEntity(w) ==
    /\ workers[w].pc = "processed"
    /\ \E fault \in {"none", "hincrby", "checkpoint", "stats"} :
          LET counted == [workers[w].stats EXCEPT
                            !.entities_processed =
                                workers[w].stats.entities_processed + 1]
              due == counted.entities_processed % checkpoint_interval = 0
          IN  /\ fault \in {"checkpoint", "stats"} => due
              /\ fault # "none" => MayRaise(1)
              /\ workers' =
                   [workers EXCEPT
                      ![w].stats = counted,
                      ![w].idx = IF fault \in {"hincrby", "checkpoint"}
                                 THEN workers[w].idx ELSE workers[w].idx + 1,
                      ![w].pc = IF fault \in {"hincrby", "checkpoint"}
                                THEN "crashed" ELSE "loop"]
              /\ redis' =
                   IF fault = "hincrby" THEN Faulted(redis, 1)
                   ELSE IF due /\ fault = "none"
                   THEN _update_redis_stats(hincrby(redis, "total_processed"),
                                            counted, FALSE)
                   ELSE hincrby(Faulted(redis, IF fault = "none" THEN 0 ELSE 1),
                                "total_processed")
    /\ UNCHANGED monitor
    /\ JobFrame

\* the loop of run is over: status 'completed'
Finish(w) ==
    /\ workers[w].pc = "loop"
    /\ workers[w].idx > Len(Assigned(w))
    /\ \E raises \in BOOLEAN :
          /\ raises => MayRaise(1)
          /\ workers' = [workers EXCEPT ![w].pc = "exited",
                                        ![w].stats.status = "completed"]
          /\ redis' = _update_redis_stats(
                         Faulted(redis, IF raises THEN 1 ELSE 0),
                         [workers[w].stats EXCEPT !.status = "completed"],
                         raises)
    /\ UNCHANGED monitor
    /\ JobFrame

\* one round of the monitor's loop: a report every report_interval
\* entities, and the end when check_completion says so
MonitorPoll ==
    /\ monitor.pc = "polling"
    /\ monitor' =
         [pc |-> IF check_completion(redis) THEN "stopped" ELSE "polling",
          last_report_count |->
             IF /\ redis.progress.total_processed > 0
                /\ redis.progress.total_processed % report_interval = 0
                /\ redis.progress.total_processed > monitor.last_report_count
             THEN redis.progress.total_processed
             ELSE monitor.last_report_count]
    /\ UNCHANGED <<redis, workers>>
    /\ JobFrame

\* donkeykong_stop
_stop_collection ==
    /\ ~redis.stop_signal
    /\ redis' = [redis EXCEPT !.stop_signal = TRUE]
    /\ UNCHANGED <<workers, monitor>>
    /\ JobFrame

\* the failure keys in the order in which scan_iter gives them
ScanOrders(failures) ==
    {order \in [1..Cardinality(failures) -> failures] :
        \A i, j \in DOMAIN order : i # j => order[i] # order[j]}

\* rpush('job:retry', entity) for each entity to retry
QueuedForRetry(retry, to_retry) == retry \o to_retry

\* donkeykong_retry with a failed entity given, or with none: every failure
_retry_failures ==
    /\ \E specific \in {<<>>} \cup {<<e>> : e \in redis.failures} :
       \E order \in ScanOrders(redis.failures) :
          LET to_retry == IF specific # <<>> THEN specific ELSE order
          IN  /\ to_retry # <<>>
              /\ Len(redis.retry) + Len(to_retry) <= MaxRetry
              /\ redis' =
                   [redis EXCEPT
                      !.failures =
                          redis.failures
                              \ {to_retry[i] : i \in DOMAIN to_retry},
                      !.retry = QueuedForRetry(redis.retry, to_retry)]
    /\ UNCHANGED <<workers, monitor>>
    /\ JobFrame

\* dk retry
cmd_retry ==
    /\ \E order \in ScanOrders(redis.failures) :
          /\ order # <<>>
          /\ Len(redis.retry) + Len(order) <= MaxRetry
          /\ redis' = [redis EXCEPT
                          !.failures = {},
                          !.retry = QueuedForRetry(redis.retry, order)]
    /\ UNCHANGED <<workers, monitor>>
    /\ JobFrame

WorkerStep(w) ==
    \/ Run(w)
    \/ BeginEntity(w)
    \/ ProcessEntity(w)
    \/ CountEntity(w)
    \/ Finish(w)

NextJob ==
    \/ \E w \in JobWorkers : WorkerStep(w)
    \/ MonitorPoll
    \/ _stop_collection
    \/ _retry_failures
    \/ cmd_retry

SpecJob == InitJob /\ [][NextJob]_vars

\* every container runs its worker, a worker that can take a step takes it,
\* and the monitor keeps polling
SpecJobFair ==
    /\ InitJob
    /\ [][NextJob]_vars
    /\ \A w \in JobWorkers : WF_vars(WorkerStep(w))
    /\ WF_vars(MonitorPoll)

----------------------------------------------------------------------------
(* The properties *)

\* validate has been called and has handed back a ValidationResult
Returned == pc = "done" /\ call.op = "validate" /\ result.kind = "result"

\* validate has been called and has raised
HasRaised == pc = "done" /\ call.op = "validate" /\ result.kind = "raised"

\* the call validate(entity_id, {}, {}) of test_empty_analysis
EmptyCall == MkCall(Dict(<<>>), Dict(<<>>), None)

\* the call validate(entity_id, good_analysis, good_raw_data)
GoodCall == MkCall(good_analysis, good_raw_data, None)

\* C1: validate of an empty analysis and empty raw_data on the default
\* validator returns a result whose should_rerun is True.
C1_EmptyAnalysisMustRerun ==
    (pc = "done" /\ config = DefaultConfig /\ call = EmptyCall)
        => (result.kind = "result" /\ result.should_rerun)

\* C2: validate never raises: whichever recognised keys of analysis and
\* raw_data are missing or null, it returns a ValidationResult.
C2_NeverRaises ==
    (pc = "done" /\ call.op = "validate") => result.kind = "result"

\* C3: the good analysis validated against the good data has an overall
\* confidence of at least 0.7, needs no rerun, and its recommended actions
\* contain an APPROVED entry.
C3_GoodAnalysisApproved ==
    (pc = "done" /\ config = DefaultConfig /\ call = GoodCall)
        => /\ result.kind = "result"
           /\ result.overall_confidence >= 700
           /\ ~result.should_rerun
           /\ \E i \in DOMAIN result.recommended_actions :
                 Contains(result.recommended_actions[i], "APPROVED")

\* C4: should_rerun is True exactly when the penalised overall confidence is
\* strictly below confidence_threshold or the number of issues is strictly
\* above max_issues_before_rerun.
C4_RerunRule ==
    Returned =>
        /\ result.should_rerun = locals.should_rerun
        /\ result.should_rerun <=>
              \/ locals.overall_confidence \div (WONE \div 100)
                    < config.confidence_threshold
              \/ Len(result.issues_found) > config.max_issues_before_rerun

\* C4 happens: a confidence equal to the threshold with as many issues as the
\* maximum, and no rerun
C4_AtThreshold ==
    /\ Returned
    /\ locals.overall_confidence
          = config.confidence_threshold * (WONE \div 100)
    /\ Len(result.issues_found) = config.max_issues_before_rerun
    /\ ~result.should_rerun

\* the penalty of n issues, as the documentation states it
StatedPenalty(n) == IF n >= 6 THEN 3 * (WONE \div 10) ELSE n * (WONE \div 20)

\* the overall confidence of the documentation, from the sub-scores of locals
StatedOverall ==
    Max(0, locals.completeness_score * config.completeness_weight
            + locals.consistency_score * config.consistency_weight
            + locals.logic_score * config.logic_weight
            - StatedPenalty(Len(locals.issues)))

\* C5: overall_confidence = max(0, completeness*w_c + consistency*w_s +
\* logic*w_l - min(0.05*N, 0.3)) with the weights as configured; the penalty
\* grows by 0.05 per issue up to 0.3 from 6 issues on, and with the same
\* sub-scores more issues never give a higher overall confidence.
C5_OverallFormula ==
    Returned =>
        /\ locals.overall_confidence = StatedOverall
        /\ result.overall_confidence = Round3(StatedOverall, WONE)
        /\ locals.issue_penalty = StatedPenalty(Len(locals.issues))
        /\ \A n \in 0..MaxIssues :
              /\ issue_penalty(n) = StatedPenalty(n)
              /\ Penalised(locals.weighted, n + 1) <= Penalised(locals.weighted, n)

\* C5 happens: more than 6 issues, weights that do not sum to 1, and an
\* overall confidence that the penalty has lowered but not to 0
C5_CappedPenalty ==
    /\ Returned
    /\ Len(locals.issues) > 6
    /\ config.completeness_weight + config.consistency_weight
          + config.logic_weight # 10
    /\ locals.overall_confidence > 0
    /\ locals.overall_confidence = locals.weighted - 3 * (WONE \div 10)

\* C6: the three sub-scores lie in [0, 1] and the overall confidence is >= 0.
C6_ScoreRanges ==
    Returned =>
        /\ locals.completeness_score \in 0..ONE
        /\ locals.consistency_score \in 0..ONE
        /\ locals.logic_score \in 0..ONE
        /\ locals.overall_confidence >= 0
        /\ result.completeness_score \in 0..1000
        /\ result.consistency_score \in 0..1000
        /\ result.logic_score \in 0..1000
        /\ result.overall_confidence >= 0

\* C6 happens: no available source is referenced, every discount of logic and
\* three of consistency have been applied, and the penalty exceeds what is left
C6_ClampedAtZero ==
    /\ Returned
    /\ locals.completeness_score = 0
    /\ locals.consistency_score \in 1..((4 * ONE) \div 10)
    /\ locals.logic_score \in 1..(ONE \div 3)
    /\ locals.weighted < locals.issue_penalty
    /\ result.overall_confidence = 0

\* C7: completeness is the number of referenced sources over the number of
\* available sources, the referenced sources are among the available ones,
\* and completeness is exactly 1.0 when no source is available.
C7_CompletenessRatio ==
    Returned =>
        /\ locals.sources_referenced
              \subseteq {locals.available_sources[i] :
                            i \in DOMAIN locals.available_sources}
        /\ locals.available_sources # <<>> =>
              locals.completeness_score
                 = (ONE * Cardinality(locals.sources_referenced))
                      \div Len(locals.available_sources)
        /\ locals.available_sources = <<>> =>
              /\ locals.completeness_score = ONE
              /\ result.completeness_score = 1000
        /\ result.completeness_score = Round3(locals.completeness_score, ONE)

\* C7 happens: some but not all of three or more available sources are
\* referenced
C7_PartlyReferenced ==
    /\ Returned
    /\ Len(locals.available_sources) >= 3
    /\ Cardinality(locals.sources_referenced) \in
          1..(Len(locals.available_sources) - 1)
    /\ result.completeness_score \in 1..999

\* C8: two calls of validate with the same entity_id, analysis, raw_data and
\* expected_fields on one validator return the same result (scores, issues,
\* questions and actions in the same order, should_rerun), whatever calls
\* were made in between.
C8_ValidateDeterministic ==
    \A i \in DOMAIN log : \A j \in DOMAIN log :
        log[i].call = log[j].call => log[i].result = log[j].result

\* C8 happens: a call that finds issues is repeated after a different call
\* with a different result
C8_RepeatedAfterAnother ==
    /\ Len(log) = MaxCalls
    /\ log[1].call = log[MaxCalls].call
    /\ log[2].call # log[1].call
    /\ log[2].result # log[1].result
    /\ log[1].result.kind = "result"
    /\ log[1].result.issues_found # <<>>
    /\ log[1].result.adversarial_questions # <<>>

\* batch_validate has been called and has handed back its summary
BatchDone == pc = "done" /\ call.op = "batch" /\ summary.kind = "summary"

\* no antonym pair in the findings
NoAntonymPair(findings) ==
    \A i \in DOMAIN contradiction_pairs :
        ~ /\ Contains(Lower(Join(" ", Elems(findings))), contradiction_pairs[i][1])
          /\ Contains(Lower(Join(" ", Elems(findings))), contradiction_pairs[i][2])

\* a known-good item: confidence 0.75 to 0.85, 2 or 3 findings, data quality
\* 85 to 90 and, as in the tests, a score from 1 to 7, no antonym pair in the
\* findings, no data source to reference and no failed source
KnownGood(item) ==
    /\ Get(item.analysis, "confidence", None) \in {Num(c) : c \in 75..85}
    /\ Get(item.analysis, "findings", None).t = "list"
    /\ Len(Get(item.analysis, "findings", None).l) \in {2, 3}
    /\ Get(item.raw_data, "data_quality_score", None)
          \in {Num(q) : q \in 8500..9000}
    /\ Get(item.analysis, "score", None) \in {Num(n) : n \in 100..700}
    /\ NoAntonymPair(Get(item.analysis, "findings", None))
    /\ available_sources(item.raw_data, hashseed) = <<>>
    /\ ~Truthy(Get(item.raw_data, "sources_failed", None))

ItemResult(i) ==
    validate(config, hashseed, call.analyses[i].entity_id,
             call.analyses[i].analysis, call.analyses[i].raw_data, None)

\* the positions of the items whose validation has should_rerun, in order
RerunPositions ==
    SelectSeq([i \in DOMAIN call.analyses |-> i],
              LAMBDA i : ItemResult(i).should_rerun)

\* the exact sum of the items' confidences, in thousandths
ConfidenceSum ==
    SumSeq([i \in DOMAIN call.analyses |-> ItemResult(i).overall_confidence])

\* total_validated is the number of items; passed + needs_rerun is that number
SummaryCounts ==
    /\ summary.total_validated = Len(call.analyses)
    /\ summary.passed + summary.needs_rerun = summary.total_validated
    /\ summary.needs_rerun = Len(summary.rerun_items)

\* rerun_items are the items with should_rerun, each once, in input order
SummaryReruns ==
    /\ Len(summary.rerun_items) = Len(RerunPositions)
    /\ \A j \in DOMAIN summary.rerun_items :
          /\ summary.rerun_items[j].entity_id
                = call.analyses[RerunPositions[j]].entity_id
          /\ summary.rerun_items[j].confidence
                = ItemResult(RerunPositions[j]).overall_confidence
          /\ summary.rerun_items[j].issues
                = ItemResult(RerunPositions[j]).issues_found
          /\ summary.rerun_items[j].recommendations
                = ItemResult(RerunPositions[j]).recommended_actions

\* min and max are the least and the greatest confidence of the items
SummaryExtremes ==
    call.analyses # <<>> =>
        /\ \A i \in DOMAIN call.analyses :
              /\ summary.min_confidence <= ItemResult(i).overall_confidence
              /\ ItemResult(i).overall_confidence <= summary.max_confidence
        /\ \E i \in DOMAIN call.analyses :
              summary.min_confidence = ItemResult(i).overall_confidence
        /\ \E i \in DOMAIN call.analyses :
              summary.max_confidence = ItemResult(i).overall_confidence

\* avg is the mean: it is within a thousandth of the exact mean
SummaryMean ==
    call.analyses # <<>> =>
        /\ FLeq(FromThousandths(
                   Max(0, ConfidenceSum \div Len(call.analyses) - 1)),
                summary.avg_confidence)
        /\ FLeq(summary.avg_confidence,
                FromThousandths(
                   (ConfidenceSum + Len(call.analyses) - 1)
                       \div Len(call.analyses) + 1))

\* avg, min and max are 0 for an empty batch
SummaryOfNothing ==
    call.analyses = <<>> =>
        /\ summary.avg_confidence = FZero
        /\ summary.min_confidence = 0
        /\ summary.max_confidence = 0

\* min <= avg <= max
MeanWithinExtremes ==
    /\ FLeq(FromThousandths(summary.min_confidence), summary.avg_confidence)
    /\ FLeq(summary.avg_confidence, FromThousandths(summary.max_confidence))

\* C10 as stated: total_validated is the number of items, passed +
\* needs_rerun = total_validated, rerun_items are exactly the items with
\* should_rerun in input order, avg/min/max are the mean/min/max of the
\* confidences with min <= avg <= max, and all three are 0 for no item.
C10_SummaryAsStated ==
    BatchDone =>
        /\ SummaryCounts /\ SummaryReruns /\ SummaryExtremes
        /\ SummaryMean /\ SummaryOfNothing
        /\ MeanWithinExtremes

\* C10: the same, with min <= avg <= max for the batches of at most two
\* items only: the mean is taken in double arithmetic and the rounding of
\* the sum of three confidences can leave it just outside [min, max].
C10_Summary ==
    BatchDone =>
        /\ SummaryCounts /\ SummaryReruns /\ SummaryExtremes
        /\ SummaryMean /\ SummaryOfNothing
        /\ Len(call.analyses) <= 2 => MeanWithinExtremes

\* C10 happens: three items, the first and the last to rerun and the second
\* passed, and a mean strictly between the least and the greatest confidence
C10_MixedBatch ==
    /\ BatchDone
    /\ Len(call.analyses) = 3
    /\ summary.passed = 1
    /\ Len(summary.rerun_items) = 2
    /\ summary.rerun_items[1].entity_id = call.analyses[1].entity_id
    /\ summary.rerun_items[2].entity_id = call.analyses[3].entity_id
    /\ summary.rerun_items[1].entity_id # summary.rerun_items[2].entity_id
    /\ FLess(FromThousandths(summary.min_confidence), summary.avg_confidence)
    /\ FLess(summary.avg_confidence, FromThousandths(summary.max_confidence))

\* the value of a recognised key of the call, when it is a number
IsNumber(v) == v.t = "num"

IsMapping(v) == v.t = "dict"

\* the confidence of the analysis is a number above k hundredths
ConfidenceAbove(analysis, k) ==
    /\ IsNumber(Get(analysis, "confidence", None))
    /\ Get(analysis, "confidence", None).n > k

\* the score of the analysis: its score, or else its quality_score
StatedScore(analysis) ==
    IF Truthy(Get(analysis, "score", None)) THEN Get(analysis, "score", None)
    ELSE Get(analysis, "quality_score", None)

\* the findings of the analysis: its findings, or else its key_findings
StatedFindings(analysis) ==
    IF Truthy(Get(analysis, "findings", None))
    THEN Get(analysis, "findings", None).l
    ELSE IF Truthy(Get(analysis, "key_findings", None))
    THEN Get(analysis, "key_findings", None).l
    ELSE <<>>

\* the number of entries of a list-valued key of raw_data, 0 when absent
ListedIn(raw_data, key) ==
    IF Get(raw_data, key, None).t = "list" THEN Len(Get(raw_data, key, None).l)
    ELSE 0

\* the four antonym pairs of the documentation
AntonymPairs ==
    << <<"positive", "negative">>, <<"increasing", "decreasing">>,
       <<"strong", "weak">>, <<"improving", "declining">> >>

\* both words of antonym pair i occur in some of these findings
PairOccurs(i, findings) ==
    /\ \E j \in DOMAIN findings :
          Contains(Lower(PyStr(findings[j])), AntonymPairs[i][1])
    /\ \E j \in DOMAIN findings :
          Contains(Lower(PyStr(findings[j])), AntonymPairs[i][2])

\* the four consistency rules of the documentation
LowQualityRule(analysis, raw_data) ==
    /\ ConfidenceAbove(analysis, 80)
    /\ IsNumber(Get(raw_data, "data_quality_score", None))
    /\ Get(raw_data, "data_quality_score", None).n < 5000

FailedSourcesRule(analysis, raw_data) ==
    /\ IsNumber(StatedScore(analysis))
    /\ StatedScore(analysis).n > 700
    /\ ListedIn(raw_data, "sources_failed") > 2

FewFindingsRule(analysis) ==
    ConfidenceAbove(analysis, 80) /\ Len(StatedFindings(analysis)) < 2

PairsFound(analysis) ==
    {i \in DOMAIN AntonymPairs : PairOccurs(i, StatedFindings(analysis))}

\* score times tenths/10 when the rule triggers
Times(score, rule, tenths) == IF rule THEN (score * tenths) \div 10 ELSE score

\* 9/10 to the power n, of score
RECURSIVE TimesNine(_, _)
TimesNine(score, n) ==
    IF n = 0 THEN score ELSE TimesNine((score * 9) \div 10, n - 1)

\* the consistency score of the documentation
StatedConsistency(analysis, raw_data) ==
    TimesNine(
        Times(Times(Times(ONE, LowQualityRule(analysis, raw_data), 6),
                    FailedSourcesRule(analysis, raw_data), 7),
              FewFindingsRule(analysis), 8),
        Cardinality(PairsFound(analysis)))

\* how many of these issues contain the text
IssuesWith(issues, text) ==
    Cardinality({i \in DOMAIN issues : Contains(issues[i], text)})

Count(rule) == IF rule THEN 1 ELSE 0

\* C11: the consistency score is 1.0 times 0.6 when confidence > 0.8 and
\* data_quality_score < 50, times 0.7 when score > 7 and more than 2 sources
\* failed, times 0.8 when confidence > 0.8 and fewer than 2 findings, times
\* 0.9 for each of the four antonym pairs whose two words both occur in the
\* findings; one issue is appended per triggered rule and no other; so
\* confidence 0.95 with data_quality_score 30 gives a consistency below 1.0
\* and an issue that mentions confidence.
C11_ConsistencyRules ==
    Returned =>
        /\ locals.consistency_score
              = StatedConsistency(call.analysis, call.raw_data)
        /\ result.consistency_score
              = Round3(StatedConsistency(call.analysis, call.raw_data), ONE)
        /\ IssuesWith(locals.consistency_issues, "despite low data quality")
              = Count(LowQualityRule(call.analysis, call.raw_data))
        /\ IssuesWith(locals.consistency_issues, "data sources failed")
              = Count(FailedSourcesRule(call.analysis, call.raw_data))
        /\ IssuesWith(locals.consistency_issues, "but only")
              = Count(FewFindingsRule(call.analysis))
        /\ \A i \in DOMAIN AntonymPairs :
              IssuesWith(locals.consistency_issues,
                         "'" \o AntonymPairs[i][1] \o "' and '"
                             \o AntonymPairs[i][2] \o "'")
                 = Count(i \in PairsFound(call.analysis))
        /\ Len(locals.consistency_issues)
              = Count(LowQualityRule(call.analysis, call.raw_data))
                  + Count(FailedSourcesRule(call.analysis, call.raw_data))
                  + Count(FewFindingsRule(call.analysis))
                  + Cardinality(PairsFound(call.analysis))
        /\ (/\ Get(call.analysis, "confidence", None) = Num(95)
            /\ Get(call.raw_data, "data_quality_score", None) = Num(3000))
              => /\ result.consistency_score < 1000
                 /\ \E i \in DOMAIN result.issues_found :
                       Contains(Lower(result.issues_found[i]), "confidence")

\* C11 happens: the three rules and the four pairs trigger together, seven
\* issues and a consistency of 0.6 * 0.7 * 0.8 * 0.9^4
C11_EveryRuleTriggers ==
    /\ Returned
    /\ LowQualityRule(call.analysis, call.raw_data)
    /\ FailedSourcesRule(call.analysis, call.raw_data)
    /\ FewFindingsRule(call.analysis)
    /\ Cardinality(PairsFound(call.analysis)) = 4
    /\ Len(locals.consistency_issues) = 7
    /\ result.consistency_score = 220

\* the numeric score of the analysis: its score when that is a number, 0 and
\* negative numbers included, or else its quality_score
NumericScore(analysis) ==
    IF IsNumber(Get(analysis, "score", None)) THEN Get(analysis, "score", None)
    ELSE Get(analysis, "quality_score", None)

\* the three logic rules of the documentation
LimitedSourcesRule(analysis, raw_data) ==
    ConfidenceAbove(analysis, 90) /\ ListedIn(raw_data, "sources_successful") < 4

ExtremeScoreRule(analysis) ==
    /\ IsNumber(NumericScore(analysis))
    /\ NumericScore(analysis).n > 900 \/ NumericScore(analysis).n < 100
    /\ Len(StatedFindings(analysis)) < 3

UnsupportedRule(analysis) ==
    /\ Truthy(Get(analysis, "recommendations", None))
    /\ StatedFindings(analysis) = <<>>

\* the logic score of the documentation
StatedLogic(analysis, raw_data) ==
    Times(Times(Times(ONE, LimitedSourcesRule(analysis, raw_data), 7),
                ExtremeScoreRule(analysis), 6),
          UnsupportedRule(analysis), 7)

\* C12: the logic score is 1.0 times 0.7 when confidence > 0.9 and fewer than
\* 4 sources were successful, times 0.6 when (score > 9 or score < 1) and
\* there are fewer than 3 findings, times 0.7 when recommendations are
\* non-empty and findings are empty, for every numeric score, 0 and negative
\* values included; one issue is appended per triggered rule.
C12_LogicRules ==
    Returned =>
        /\ locals.logic_score = StatedLogic(call.analysis, call.raw_data)
        /\ IssuesWith(locals.logic_issues, "with limited data sources")
              = Count(LimitedSourcesRule(call.analysis, call.raw_data))
        /\ IssuesWith(locals.logic_issues, "Extreme score")
              = Count(ExtremeScoreRule(call.analysis))
        /\ IssuesWith(locals.logic_issues, "Recommendations provided")
              = Count(UnsupportedRule(call.analysis))
        /\ Len(locals.logic_issues)
              = Count(LimitedSourcesRule(call.analysis, call.raw_data))
                  + Count(ExtremeScoreRule(call.analysis))
                  + Count(UnsupportedRule(call.analysis))

\* the two temporal and the two scope questions of the documentation
FixedFour ==
    <<"Is this analysis based on current data or historical trends?",
      "How might this conclusion change in 3-6 months?",
      "What factors outside the available data could affect this conclusion?",
      "How does this compare to industry peers/benchmarks?">>

\* sources_failed of raw_data is non-empty
SomeFailed(raw_data) == ListedIn(raw_data, "sources_failed") > 0

\* data_quality_score of raw_data is below 80
QualityBelow80(raw_data) ==
    /\ IsNumber(Get(raw_data, "data_quality_score", None))
    /\ Get(raw_data, "data_quality_score", None).n < 8000

IsFailedQuestion(q, raw_data) ==
    q = "How confident can we be with "
            \o ToString(ListedIn(raw_data, "sources_failed"))
            \o " data sources unavailable?"

IsQualityQuestion(q) == Contains(q, "Data quality is only")

IsLoweringQuestion(q) == Contains(q, "lower your confidence")

IsRaisingQuestion(q) == Contains(q, "increase confidence")

IsContradictionQuestion(q) == Contains(q, "contradictions in findings")

\* some issue contains "contradictory", whatever the case of its letters
SomeContradictory(issues) ==
    \E i \in DOMAIN issues : Contains(Lower(issues[i]), "contradictory")

\* the questions q are, in this order: the failed-sources question iff some
\* source failed, the data-quality question iff the quality is below 80, the
\* fixed four, then "rest"
QuestionsBegin(q, raw_data, rest) ==
    /\ Len(q) = Count(SomeFailed(raw_data)) + Count(QualityBelow80(raw_data))
                    + 4 + Len(rest)
    /\ SomeFailed(raw_data) => IsFailedQuestion(q[1], raw_data)
    /\ QualityBelow80(raw_data) =>
          IsQualityQuestion(q[Count(SomeFailed(raw_data)) + 1])
    /\ SubSeq(q, Len(q) - Len(rest) - 3, Len(q) - Len(rest)) = FixedFour
    /\ SubSeq(q, Len(q) - Len(rest) + 1, Len(q)) = rest

\* rest is at most one confidence question, then the contradiction question
\* iff some issue contains "contradictory"
QuestionsEnd(rest, issues) ==
    /\ Len(rest) <= 2
    /\ IssuesWith(rest, "contradictions in findings")
          = Count(SomeContradictory(issues))
    /\ SomeContradictory(issues) => IsContradictionQuestion(rest[Len(rest)])
    /\ \A i \in DOMAIN rest :
          \/ IsLoweringQuestion(rest[i])
          \/ IsRaisingQuestion(rest[i])
          \/ IsContradictionQuestion(rest[i])
    /\ IssuesWith(rest, "lower your confidence")
          + IssuesWith(rest, "increase confidence") <= 1

\* C13: the question list is, in this order, a failed-sources question
\* citing the count iff sources_failed is non-empty, a data-quality question
\* iff data_quality_score < 80, the four fixed questions (two temporal, two
\* scope), at most one confidence question, and the contradiction question
\* iff some issue contains "contradictory"; it has 4 to 8 entries, and with
\* failed sources some question contains "unavailable" or "source".
C13_QuestionOrder ==
    Returned =>
        /\ Len(result.adversarial_questions) \in 4..8
        /\ \E n \in 0..2 :
              /\ n <= Len(result.adversarial_questions) - 4
              /\ QuestionsBegin(result.adversarial_questions, call.raw_data,
                    SubSeq(result.adversarial_questions,
                           Len(result.adversarial_questions) - n + 1,
                           Len(result.adversarial_questions)))
              /\ QuestionsEnd(
                    SubSeq(result.adversarial_questions,
                           Len(result.adversarial_questions) - n + 1,
                           Len(result.adversarial_questions)),
                    result.issues_found)
        /\ SomeFailed(call.raw_data) =>
              \E i \in DOMAIN result.adversarial_questions :
                 \/ Contains(Lower(result.adversarial_questions[i]),
                             "unavailable")
                 \/ Contains(Lower(result.adversarial_questions[i]), "source")

\* C13 happens: all eight questions, the failed sources first, the data
\* quality second, the contradiction last
C13_EightQuestions ==
    /\ Returned
    /\ Len(result.adversarial_questions) = 8
    /\ IsFailedQuestion(result.adversarial_questions[1], call.raw_data)
    /\ IsQualityQuestion(result.adversarial_questions[2])
    /\ SubSeq(result.adversarial_questions, 3, 6) = FixedFour
    /\ IsLoweringQuestion(result.adversarial_questions[7])
    /\ IsContradictionQuestion(result.adversarial_questions[8])

\* the confidence of the analysis is a number, 0 included
ConfidenceDefined(analysis) == IsNumber(Get(analysis, "confidence", None))

\* C14: the confidence-lowering question is among the questions iff
\* confidence > 0.8, the confidence-raising question iff confidence is
\* defined and < 0.5, for every numeric confidence, 0 included; so never
\* both, and neither for a confidence in [0.5, 0.8] or an absent one.
C14_ConfidenceQuestion ==
    Returned =>
        /\ IssuesWith(result.adversarial_questions, "lower your confidence")
              = Count(ConfidenceAbove(call.analysis, 80))
        /\ IssuesWith(result.adversarial_questions, "increase confidence")
              = Count(/\ ConfidenceDefined(call.analysis)
                      /\ Get(call.analysis, "confidence", None).n < 50)

\* the five conditions of the documentation, on the sub-scores of the call
\* and on its numbers of issues and questions
AddDataFires == 10 * locals.completeness_score < 8 * ONE
ReviewFires == 10 * locals.consistency_score < 7 * ONE
RerunFires == 10 * locals.logic_score < 7 * ONE
EscalateFires == Len(result.issues_found) > 5
DeepDiveFires == Len(result.adversarial_questions) > 4

\* how many of the recommended actions begin with the tag
ActionsTagged(tag) ==
    Cardinality({i \in DOMAIN result.recommended_actions :
        SubSeq(result.recommended_actions[i], 1, Len(tag)) = tag})

\* C15: recommended_actions is never empty; it has the ADD_DATA entry iff
\* completeness < 0.8, REVIEW iff consistency < 0.7, RERUN iff logic < 0.7,
\* ESCALATE iff more than 5 issues, DEEP_DIVE iff more than 4 questions, each
\* once and nothing else; it is the single APPROVED entry iff none of the
\* five fired, and APPROVED never comes with another entry.
C15_Recommendations ==
    Returned =>
        /\ result.recommended_actions # <<>>
        /\ ActionsTagged("ADD_DATA: ") = Count(AddDataFires)
        /\ ActionsTagged("REVIEW: ") = Count(ReviewFires)
        /\ ActionsTagged("RERUN: ") = Count(RerunFires)
        /\ ActionsTagged("ESCALATE: ") = Count(EscalateFires)
        /\ ActionsTagged("DEEP_DIVE: ") = Count(DeepDiveFires)
        /\ ActionsTagged("APPROVED: ")
              = Count(~(\/ AddDataFires \/ ReviewFires \/ RerunFires
                        \/ EscalateFires \/ DeepDiveFires))
        /\ Len(result.recommended_actions)
              = ActionsTagged("ADD_DATA: ") + ActionsTagged("REVIEW: ")
                  + ActionsTagged("RERUN: ") + ActionsTagged("ESCALATE: ")
                  + ActionsTagged("DEEP_DIVE: ") + ActionsTagged("APPROVED: ")
        /\ ActionsTagged("APPROVED: ") = 1 =>
              Len(result.recommended_actions) = 1

\* C15 happens: a consistency and a logic of exactly 0.7, which do not fire,
\* with more than 4 questions, which does: DEEP_DIVE alone, no APPROVED
C15_AtTheLimits ==
    /\ Returned
    /\ 10 * locals.consistency_score = 7 * ONE
    /\ 10 * locals.logic_score = 7 * ONE
    /\ DeepDiveFires
    /\ Len(result.recommended_actions) = 1
    /\ ActionsTagged("DEEP_DIVE: ") = 1

\* validate of an Ollama validator has been called and has returned or raised
OllamaDone == pc = "done" /\ call.op = "ollama_validate"

\* the same call on a rule-based validator
RuleBased ==
    validate(config, hashseed, call.entity_id, call.analysis, call.raw_data,
             call.expected_fields)

\* the response is a mapping whose message is a mapping whose content is text
WellFormed(reply) ==
    /\ reply.kind = "response"
    /\ IsMapping(reply.value)
    /\ IsMapping(Get(reply.value, "message", None))
    /\ Get(Get(reply.value, "message", None), "content", None).t = "str"

\* the language-model call failed: there is no client, the chat raised or
\* timed out, or the response is malformed
CallFailed == _client = NoClient \/ ~WellFormed(ollama.reply)

\* q is base followed by at most 3 non-empty questions
ExtendsByThree(q, base) ==
    /\ Len(q) - Len(base) \in 0..3
    /\ SubSeq(q, 1, Len(base)) = base
    /\ \A i \in DOMAIN q : q[i] # ""

\* the questions of the call, given the result r of the rule-based validator
FallsBack(r) ==
    /\ result.kind = r.kind
    /\ result.kind = "result" =>
          /\ CallFailed => result.adversarial_questions = r.adversarial_questions
          /\ ~CallFailed =>
                ExtendsByThree(result.adversarial_questions,
                               r.adversarial_questions)
          /\ result.issues_found = r.issues_found
          /\ result.overall_confidence = r.overall_confidence
          /\ result.should_rerun = r.should_rerun

SixReserved ==
    {"data_quality_score", "sources_failed", "sources_successful",
     "collection_timestamp", "ticker", "entity_id"}

NonEmpty(v) ==
    v \notin {None, Num(0), Bool(FALSE), Str(""), List(<<>>), Dict(<<>>)}

\* the mapping carries a success: false flag
FlaggedFailed(v) ==
    \E i \in DOMAIN v.d : v.d[i].k = "success" /\ v.d[i].v = Bool(FALSE)

\* the mapping has a key other than success with a truthy value
HasData(v) ==
    \E i \in DOMAIN v.d : v.d[i].k # "success" /\ NonEmpty(v.d[i].v)

\* entry i of raw_data is an available source, as the documentation has it
StatedAvailable(raw_data, i) ==
    /\ NonEmpty(raw_data.d[i].v)
    /\ raw_data.d[i].k \notin SixReserved
    /\ IsMapping(raw_data.d[i].v) =>
          ~FlaggedFailed(raw_data.d[i].v) /\ HasData(raw_data.d[i].v)

\* C17: a top-level key of raw_data is an available source iff its value is
\* non-empty, the key is not one of the six reserved keys and, when the value
\* is a mapping, it has no success: false flag and has a key other than
\* success with a truthy value; each such key is counted once.
C17_AvailableSources ==
    Returned =>
        /\ {locals.available_sources[i] : i \in DOMAIN locals.available_sources}
              = {call.raw_data.d[i].k :
                    i \in {j \in DOMAIN call.raw_data.d :
                              StatedAvailable(call.raw_data, j)}}
        /\ Len(locals.available_sources)
              = Cardinality({j \in DOMAIN call.raw_data.d :
                                StatedAvailable(call.raw_data, j)})

\* C17 happens: raw_data with a source that is available, one flagged as
\* failed that has data, one whose only other value is empty, and a
\* non-empty reserved key
C17_MixedRawData ==
    /\ Returned
    /\ locals.available_sources # <<>>
    /\ \E i \in DOMAIN call.raw_data.d :
          /\ IsMapping(call.raw_data.d[i].v)
          /\ FlaggedFailed(call.raw_data.d[i].v)
          /\ HasData(call.raw_data.d[i].v)
    /\ \E i \in DOMAIN call.raw_data.d :
          /\ IsMapping(call.raw_data.d[i].v)
          /\ NonEmpty(call.raw_data.d[i].v)
          /\ ~FlaggedFailed(call.raw_data.d[i].v)
          /\ ~HasData(call.raw_data.d[i].v)
    /\ \E i \in DOMAIN call.raw_data.d :
          /\ call.raw_data.d[i].k \in SixReserved
          /\ NonEmpty(call.raw_data.d[i].v)
    /\ \E i \in DOMAIN call.raw_data.d :
          /\ IsMapping(call.raw_data.d[i].v)
          /\ StatedAvailable(call.raw_data, i)
    /\ \E i \in DOMAIN call.raw_data.d :
          /\ ~IsMapping(call.raw_data.d[i].v)
          /\ StatedAvailable(call.raw_data, i)

\* the critical names of the documentation
CriticalNames == {"earnings", "filings", "analyst", "news", "insider", "sec"}

\* the name of the source equals or contains a critical name, whatever the
\* case of its letters
StatedCritical(source) ==
    \E name \in CriticalNames : Contains(Lower(source), name)

CriticalIssue(source) ==
    "Critical data source '" \o source \o "' available but not clearly analyzed"

\* the available sources that are critical and were not referenced
MissingCritical ==
    {i \in DOMAIN locals.available_sources :
        /\ StatedCritical(locals.available_sources[i])
        /\ locals.available_sources[i] \notin locals.sources_referenced}

\* C18: for every available source whose name equals or contains a critical
\* name and which was not referenced, exactly one "Critical data source
\* '<name>' available but not clearly analyzed" issue is emitted, and none
\* for a referenced or a non-critical source; so a completeness of 1.0
\* implies no such issue.
C18_CriticalIssues ==
    Returned =>
        /\ \A i \in DOMAIN locals.available_sources :
              Cardinality({j \in DOMAIN result.issues_found :
                  result.issues_found[j]
                     = CriticalIssue(locals.available_sources[i])})
                 = Count(i \in MissingCritical)
        /\ IssuesWith(result.issues_found, "Critical data source")
              = Cardinality(MissingCritical)
        /\ result.completeness_score = 1000 =>
              IssuesWith(result.issues_found, "Critical data source") = 0

\* C18 happens: among the available sources one that contains a critical name
\* is not referenced and has its issue, a critical one is referenced and a
\* non-critical one is not referenced, and these two have none
C18_OneOfThree ==
    /\ Returned
    /\ \E i \in MissingCritical :
          /\ Lower(locals.available_sources[i]) \notin CriticalNames
          /\ \E j \in DOMAIN result.issues_found :
                result.issues_found[j]
                   = CriticalIssue(locals.available_sources[i])
    /\ \E i \in DOMAIN locals.available_sources :
          /\ StatedCritical(locals.available_sources[i])
          /\ locals.available_sources[i] \in locals.sources_referenced
    /\ \E i \in DOMAIN locals.available_sources :
          /\ ~StatedCritical(locals.available_sources[i])
          /\ locals.available_sources[i] \notin locals.sources_referenced
    /\ IssuesWith(result.issues_found, "Critical data source") = 1

\* expected_fields is supplied: a list with some field
FieldsSupplied ==
    call.expected_fields.t = "list" /\ call.expected_fields.l # <<>>

\* the field is found in the flattened analysis text: its lowercased name, or
\* one of the terms the semantic dictionary relates to it, occurs there
FieldFound(field) ==
    \E i \in DOMAIN related_terms(Lower(field)) :
        Contains(Lower(flatten_to_string(call.analysis, 0)),
                 related_terms(Lower(field))[i])

\* the positions of the expected fields that are not found
FieldsNotFound ==
    {i \in DOMAIN call.expected_fields.l :
        ~FieldFound(call.expected_fields.l[i].s)}

FieldIssue(field) ==
    "Expected field '" \o field \o "' not addressed in analysis"

\* the same call without expected_fields
WithoutFields ==
    validate(config, hashseed, call.entity_id, call.analysis, call.raw_data,
             None)

\* what the fields change, given the result r of the call without them
FieldsOnlyAddIssues(r) ==
    /\ result.completeness_score = r.completeness_score
    /\ result.consistency_score = r.consistency_score
    /\ result.logic_score = r.logic_score
    /\ Len(result.issues_found)
          = Len(r.issues_found) + Cardinality(FieldsNotFound)
    /\ locals.issue_penalty
          = StatedPenalty(Len(r.issues_found) + Cardinality(FieldsNotFound))
    /\ result.should_rerun <=>
          \/ locals.overall_confidence \div (WONE \div 100)
                < config.confidence_threshold
          \/ Len(r.issues_found) + Cardinality(FieldsNotFound)
                > config.max_issues_before_rerun

\* C19: with expected_fields supplied, one "Expected field '<field>' not
\* addressed in analysis" issue is emitted for each expected field that is
\* not found in the flattened analysis text and none for one that is found;
\* these issues leave the completeness score as it is without the fields,
\* and they count towards the issue penalty and the rerun issue limit.
C19_ExpectedFields ==
    (Returned /\ FieldsSupplied) =>
        /\ \A i \in DOMAIN call.expected_fields.l :
              Cardinality({j \in DOMAIN result.issues_found :
                  result.issues_found[j]
                     = FieldIssue(call.expected_fields.l[i].s)})
                 = Count(i \in FieldsNotFound)
        /\ IssuesWith(result.issues_found, "Expected field")
              = Cardinality(FieldsNotFound)
        /\ FieldsOnlyAddIssues(WithoutFields)

\* the fields alone make the rerun, given the result r without them
RerunForFields(r) ==
    /\ ~r.should_rerun
    /\ result.should_rerun
    /\ result.completeness_score = r.completeness_score
    /\ result.completeness_score \in 1..999
    /\ result.overall_confidence < r.overall_confidence
    /\ locals.overall_confidence \div (WONE \div 100)
          >= config.confidence_threshold

\* C19 happens: of the expected fields one is found and two are not, and
\* their two issues take a call that would pass above the issue limit
C19_RerunForFields ==
    /\ Returned /\ FieldsSupplied
    /\ Cardinality(FieldsNotFound) = 2
    /\ Len(call.expected_fields.l) = 3
    /\ RerunForFields(WithoutFields)

\* every thread that has left validate has what its call gives when it runs
\* alone on the validator
ThreadsAsAlone ==
    \A t \in DOMAIN threads :
        threads[t].pc = "done" =>
            threads[t].result
               = validate(config, hashseed, threads[t].call.entity_id,
                          threads[t].call.analysis, threads[t].call.raw_data,
                          threads[t].call.expected_fields)

\* batch_validate gives what validate gives for each item
BatchAsAlone ==
    (pc = "done" /\ call.op = "batch") =>
        /\ summary.kind = "summary"
        /\ SummaryCounts
        /\ SummaryReruns

\* a step leaves the five configuration values and the arguments of every
\* call as they are
FrameKept ==
    /\ config' = config
    /\ call' = call
    /\ DOMAIN threads' = DOMAIN threads
    /\ \A t \in DOMAIN threads : threads'[t].call = threads[t].call

\* C20: validate and batch_validate leave the validator's five configuration
\* values and the caller's analysis, raw_data and expected_fields unchanged
\* and keep no state between calls; so in any interleaving of concurrent
\* validate calls on one validator each call returns the same result as if
\* it ran alone.
C20_ConcurrentCalls ==
    /\ [](ThreadsAsAlone /\ BatchAsAlone)
    /\ [][FrameKept]_vars

\* C20 happens: thread 1 is in the middle of validate, with issues found and
\* its questions not yet asked, while thread 2 has run another call to its
\* end, with other issues, and batch_validate has returned
C20_Interleaved ==
    /\ pc = "done" /\ call.op = "batch" /\ summary.kind = "summary"
    /\ threads[1].pc = "questions"
    /\ threads[1].issues # <<>>
    /\ threads[2].pc = "done"
    /\ threads[2].result.kind = "result"
    /\ threads[2].result.issues_found # <<>>
    /\ threads[2].result.issues_found # threads[1].issues
    /\ threads[2].call # threads[1].call

\* the six names of the semantic dictionary
DictionaryNames == {"earnings", "news", "analyst", "insider", "sec", "filings"}

\* the related terms of a lowercased source name
TermsOf(name) ==
    IF name \in DictionaryNames THEN semantic_mappings[name] ELSE <<name>>

\* strategy (a): the lowercased name occurs in the flattened text
NameInText(source, text) == Contains(text, Lower(source))

\* strategy (b): at least two related terms occur in the flattened text
TwoTermsInText(source, text) ==
    \E i, j \in DOMAIN TermsOf(Lower(source)) :
        /\ i # j
        /\ Contains(text, TermsOf(Lower(source))[i])
        /\ Contains(text, TermsOf(Lower(source))[j])

\* strategy (c): the lowercased name or a related term occurs in a key
NameOrTermInKey(source, keys) ==
    \E key \in keys :
        \/ Contains(key, Lower(source))
        \/ \E i \in DOMAIN TermsOf(Lower(source)) :
              Contains(key, TermsOf(Lower(source))[i])

NameInKey(source, keys) == \E key \in keys : Contains(key, Lower(source))

StatedReferenced(source, text, keys) ==
    \/ NameInText(source, text)
    \/ TwoTermsInText(source, text)
    \/ NameOrTermInKey(source, keys)

ReferencedAsStated(available, referenced, text, keys) ==
    /\ referenced = {s \in available : StatedReferenced(s, text, keys)}
    /\ \A s \in available :
          Lower(s) \notin DictionaryNames =>
              /\ ~TwoTermsInText(s, text)
              /\ s \in referenced
                    <=> (NameInText(s, text) \/ NameInKey(s, keys))

\* C21: an available source is referenced iff its lowercased name occurs in
\* the flattened analysis text, or at least 2 of its related terms occur in
\* that text, or its lowercased name or a related term occurs in an analysis
\* key; for a name absent from the semantic dictionary the only related term
\* is the name, the second strategy never matches, and the source is
\* referenced iff its name occurs in the text or in a key.
C21_ReferencedSources ==
    Returned =>
        ReferencedAsStated(
            {locals.available_sources[i] : i \in DOMAIN locals.available_sources},
            locals.sources_referenced,
            Lower(flatten_to_string(call.analysis, 0)),
            collect_keys(call.analysis, 0))

OnlyBySecond(available, text, keys) ==
    \E s \in available :
        /\ TwoTermsInText(s, text)
        /\ ~NameInText(s, text) /\ ~NameOrTermInKey(s, keys)

OneTermIsNotEnough(available, referenced, text) ==
    \E s \in available \ referenced :
        \E i \in DOMAIN TermsOf(Lower(s)) : Contains(text, TermsOf(Lower(s))[i])

\* C21 happens: of the available sources one is referenced by two related
\* terms alone, and one with a single related term in the text is not
\* referenced
C21_TwoTermsAlone ==
    /\ Returned
    /\ OnlyBySecond(
            {locals.available_sources[i] : i \in DOMAIN locals.available_sources},
            Lower(flatten_to_string(call.analysis, 0)),
            collect_keys(call.analysis, 0))
    /\ OneTermIsNotEnough(
            {locals.available_sources[i] : i \in DOMAIN locals.available_sources},
            locals.sources_referenced,
            Lower(flatten_to_string(call.analysis, 0)))

\* a CompositeValidator's validate has returned
CompositeDone == composite # Unused /\ composite.pc = "done"

\* the inner validators were called once each, in list order, on the
\* entity and data that the composite was given
InnerCallsInOrder ==
    /\ Len(composite.calls) = Len(composite.validators)
    /\ \A i \in DOMAIN composite.calls :
          composite.calls[i] = [validator |-> i, entity |-> composite.entity,
                                data |-> composite.data]

\* the issues an inner result reports, its quality score (0 when it gives
\* none) and whether it asks for a retry
ReportedIssues(r) ==
    IF \E i \in DOMAIN r.d : r.d[i].k = "issues"
    THEN r.d[CHOOSE i \in DOMAIN r.d : r.d[i].k = "issues"].v.l ELSE <<>>

ReportedScore(r) ==
    IF \E i \in DOMAIN r.d : r.d[i].k = "quality_score"
    THEN r.d[CHOOSE i \in DOMAIN r.d : r.d[i].k = "quality_score"].v.n ELSE 0

AsksRetry(r) ==
    \E i \in DOMAIN r.d : r.d[i].k = "should_retry" /\ r.d[i].v = Bool(TRUE)

RECURSIVE Concatenated(_)
Concatenated(rs) ==
    IF rs = <<>> THEN <<>>
    ELSE ReportedIssues(Head(rs)) \o Concatenated(Tail(rs))

\* the least of a non-empty set of numbers
Least(S) == CHOOSE x \in S : \A y \in S : x <= y

InnerScores(rs) == {ReportedScore(rs[i]) : i \in DOMAIN rs}

ReducedButScore ==
    /\ InnerCallsInOrder
    /\ Get(composite.result, "valid", None)
          = Bool(\A i \in DOMAIN composite.validators :
                    ReportedIssues(composite.validators[i]) = <<>>)
    /\ Get(composite.result, "should_retry", None)
          = Bool(\E i \in DOMAIN composite.validators :
                    AsksRetry(composite.validators[i]))
    /\ Get(composite.result, "issues", None)
          = List(Concatenated(composite.validators))

\* C22, as stated: the quality score is the minimum of the inner quality
\* scores, and 100 when there is no inner validator.
C22_MinOfInnerScores ==
    CompositeDone =>
        /\ ReducedButScore
        /\ Get(composite.result, "quality_score", None)
              = IF composite.validators = <<>> THEN Num(10000)
                ELSE Num(Least(InnerScores(composite.validators)))

\* C22: CompositeValidator.validate runs every inner validator once, in list
\* order, on the entity and data it was given; valid iff no inner validator
\* reported an issue, should_retry iff some inner validator asked for a
\* retry, issues = the inner issue lists concatenated in validator order, and
\* quality_score = the minimum of 100 and the inner quality scores: an
\* inner score above 100 does not raise it above 100.
C22_CompositeReduce ==
    CompositeDone =>
        /\ ReducedButScore
        /\ Get(composite.result, "quality_score", None)
              = Num(Least({10000} \cup InnerScores(composite.validators)))

\* C22 happens: three inner validators, the first clean and scoring 150,
\* the second with issues that asks for no retry, the third with other
\* issues that asks for one
C22_ThreeInner ==
    /\ CompositeDone
    /\ Len(composite.validators) = 3
    /\ ReportedScore(composite.validators[1]) > 10000
    /\ ReportedIssues(composite.validators[1]) = <<>>
    /\ ReportedIssues(composite.validators[2]) # <<>>
    /\ ~AsksRetry(composite.validators[2])
    /\ ReportedIssues(composite.validators[3]) # <<>>
    /\ ReportedIssues(composite.validators[3])
          # ReportedIssues(composite.validators[2])
    /\ AsksRetry(composite.validators[3])
    /\ Get(composite.result, "quality_score", None) = Num(6000)

\* the compose file is written and every container has run run_worker
AllContainersRan ==
    /\ compose # Unused /\ compose.pc = "generated"
    /\ \A i \in DOMAIN workers : workers[i].pc = "ran"

\* the ranges of the compose file are contiguous, disjoint and cover the
\* entities, the last worker taking the remainder
RangesPartition ==
    /\ compose.env[1].START_INDEX = 0
    /\ compose.env[compose.n].END_INDEX = compose.total
    /\ \A i \in 1..(compose.n - 1) :
          /\ compose.env[i].END_INDEX = compose.env[i + 1].START_INDEX
          /\ compose.env[i].END_INDEX - compose.env[i].START_INDEX
                = compose.total \div compose.n
    /\ \A i \in 1..compose.n :
          compose.env[i].START_INDEX <= compose.env[i].END_INDEX

\* container i processed the positions [START_INDEX, END_INDEX) of the file
ProcessedItsRange(i) ==
    workers[i].assigned
        = [k \in 1..(compose.env[i].END_INDEX - compose.env[i].START_INDEX) |->
              compose.env[i].START_INDEX + k]

\* the number of containers whose worker was given entity e
TimesAssigned(e) ==
    Cardinality({i \in DOMAIN workers :
                    \E k \in DOMAIN workers[i].assigned :
                        workers[i].assigned[k] = e})

\* C25: run_worker processes exactly the entities at positions
\* [START_INDEX, END_INDEX) given to its container, the ranges of the compose
\* file are contiguous, disjoint and cover every entity, and so every entity
\* is processed by exactly one worker.
C25_DisjointRanges ==
    /\ (compose # Unused /\ compose.pc = "generated") => RangesPartition
    /\ \A i \in DOMAIN workers : workers[i].pc = "ran" => ProcessedItsRange(i)
    /\ AllContainersRan => \A e \in 1..compose.total : TimesAssigned(e) = 1

\* recommended_actions has the APPROVED entry
Approved ==
    \E i \in DOMAIN result.recommended_actions :
        result.recommended_actions[i]
            = "APPROVED: Analysis passes adversarial validation"

\* C27: under the default configuration, whenever recommended_actions
\* contains the APPROVED entry, should_rerun is False.
C27_ApprovedNoRerun ==
    (Returned /\ config = DefaultConfig /\ Approved) => ~result.should_rerun

\* the decision that the stored values give: the stored overall_confidence,
\* in thousandths, is below the threshold, or there are too many issues
StoredDecision ==
    \/ result.overall_confidence < config.confidence_threshold * 10
    \/ Len(result.issues_found) > config.max_issues_before_rerun

\* C28: for every configuration, should_rerun is True iff the stored
\* overall_confidence (rounded to 3 decimals) is below confidence_threshold
\* or issues_found is longer than max_issues_before_rerun.
C28_StoredDecision ==
    Returned => (result.should_rerun <=> StoredDecision)

\* C23: after donkeykong_stop has set the stop signal, every running worker
\* finishes the entity it is processing and then exits without starting any
\* further entity: a worker between two entities begins no entity once the
\* signal is set.
C23_StopsAfterCurrent ==
    [][\A w \in JobWorkers :
          (redis.stop_signal /\ workers[w].pc = "loop")
              => workers'[w].pc # "collecting"]_vars

\* the run of worker w has not started, or has entities left to process
Unfinished(w) == workers[w].pc \in {"created", "loop", "collecting", "processed"}

\* C24: the monitor reports completion and stops only when all workers of
\* the job have completed their runs, never while some expected worker has
\* not yet started or still has entities left to process.
C24_CompletionMeansAllDone ==
    monitor.pc = "stopped" => \A w \in JobWorkers : ~Unfinished(w)

\* worker w is processing entity e
Processing(w, e) ==
    /\ workers[w].pc = "collecting"
    /\ Assigned(w)[workers[w].idx] = e

\* entity e is on the job:retry list
OnRetryQueue(e) == \E i \in DOMAIN redis.retry : redis.retry[i] = e

\* the failure records that a step removes are appended to job:retry
RemovedAreQueued ==
    \A e \in JobEntities :
        (e \in redis.failures /\ e \notin redis'.failures)
            => (~OnRetryQueue(e) /\ redis'.retry # redis.retry
                  /\ \E i \in DOMAIN redis'.retry :
                        i > Len(redis.retry) /\ redis'.retry[i] = e)

\* C26: every entity whose failure record is removed by donkeykong_retry or
\* dk retry is appended to the job:retry queue, and every entity placed on
\* that queue is eventually processed again by some worker.
C26_RetryRecollects ==
    /\ [][RemovedAreQueued]_vars
    /\ \A e \in JobEntities :
          OnRetryQueue(e) ~> \E w \in JobWorkers : Processing(w, e)

\* by how much a step raises a counter of worker w, and a Redis total
LocalStep(w, field) == workers'[w].stats[field] - workers[w].stats[field]
TotalStep(field) == redis'.progress[field] - redis.progress[field]

\* the step is a call of process_entity in worker w, to its return or its
\* exception
ProcessEntityStep(w) ==
    workers[w].pc = "collecting" /\ workers'[w].pc # "collecting"

\* C29: for every entity handed to process_entity exactly one of the
\* worker's counters entities_successful and entities_failed, and exactly one
\* of the Redis totals total_successful and total_failed, is incremented, by
\* exactly one, also when a Redis or file operation raises part-way; hence
\* after each iteration of run's loop entities_successful + entities_failed
\* = entities_processed, and once all workers are idle total_successful +
\* total_failed = total_processed.
C29_ExactlyOneCounter ==
    /\ [][\A w \in JobWorkers :
            ProcessEntityStep(w)
                => /\ LocalStep(w, "entities_successful") \in {0, 1}
                   /\ LocalStep(w, "entities_failed") \in {0, 1}
                   /\ LocalStep(w, "entities_successful")
                         + LocalStep(w, "entities_failed") = 1
                   /\ TotalStep("total_successful") \in {0, 1}
                   /\ TotalStep("total_failed") \in {0, 1}
                   /\ TotalStep("total_successful")
                         + TotalStep("total_failed") = 1]_vars
    /\ [](\A w \in JobWorkers :
            workers[w].pc \in {"loop", "exited"}
                => workers[w].stats.entities_successful
                      + workers[w].stats.entities_failed
                   = workers[w].stats.entities_processed)
    /\ []((\A w \in JobWorkers : workers[w].pc \in {"created", "exited"})
            => redis.progress.total_successful + redis.progress.total_failed
                  = redis.progress.total_processed)

\* the run of every worker has ended, by its return or by an exception
AllRunsEnded == \A w \in JobWorkers : workers[w].pc \in {"exited", "crashed"}

\* C30: if every worker's run ends, by processing all its entities or by an
\* uncaught exception, the monitor eventually observes completion and stops
\* instead of polling forever.
C30_MonitorTerminates == AllRunsEnded ~> monitor.pc = "stopped"
====
